---- MODULE Spec2Model ----
(***************************************************************************)
(* ArmsLength SigInt collectors: the multi-protocol collector              *)
(* (sigint_multi_collector.py), the Bluetooth collector                    *)
(* (sigint_bluetooth_collector.py) and the Wi-Fi collector                 *)
(* (sigint_collector.py).                                                  *)
(*                                                                         *)
(* Representation of Python values:                                        *)
(*  - a Python string is a string (a sequence of characters: Len, SubSeq    *)
(*    and \o apply); a string that may be None is "" when both are falsy   *)
(*    to the code;                                                         *)
(*  - a dict is a record, dict.get(k, d) is Get(d, k, default);            *)
(*  - an optional scalar is None (the empty sequence) or <<v>>;            *)
(*  - a backend's return is a record [st, val, calls]: st = "ok" with the  *)
(*    list val, st = "None", or st = "raise" when an exception leaves the  *)
(*    function (val is then <<the exception's name>>); calls lists the     *)
(*    tools the function invoked, in order;                                *)
(*  - frequencies are in MHz: the code's value is this number times 10^6,  *)
(*    which needs more than 32 bits.                                       *)
(***************************************************************************)
EXTENDS Integers, Sequences, FiniteSets, TLC

VARIABLES
    variant,          \* which collector runs: "multi", "bt" or "wifi"
    system,           \* platform.system()
    once,             \* args.once
    wifi_only,        \* args.wifi_only (multi)
    bt_only,          \* args.bt_only (multi)
    API_KEY,          \* module global, after the arguments are applied
    APP_URL,          \* module global, after the arguments are applied
    LATITUDE,         \* module global, None or <<lat>>
    LONGITUDE,        \* module global, None or <<lng>>
    pc,               \* the controller's position in main()
    scan_count,       \* main's scan_count
    total_pushed,     \* main's total_pushed
    wifi_nets,        \* raw Wi-Fi sightings of this iteration (wifi_nets / networks)
    bt_devs_raw,      \* raw Bluetooth sightings of this iteration (bt_devs_raw / bt_devices)
    all_devices,      \* the batch of canonical records (all_devices / devices)
    ok,               \* first component of the last push_to_server return
    result,           \* second component of the last push_to_server return
    http,             \* the requests issued by the probe or in this iteration, each
                      \* with the devices it carried and what came back
    server_processed, \* sum of the `processed` the server reported in its 200 answers
                      \* to the requests made inside the loop
    calls,            \* the backend tools invoked in this iteration, in order
    summary,          \* the final "Stopped." line: None or <<scans, pushed>>
    exc,              \* the exception raised out of the probe or the loop body: "" or its name
    env,              \* backend outcomes handed to an orchestrator (SpecOrch)
    ret,              \* what the orchestrator returned (SpecOrch)
    worker            \* the thread of the ThreadPoolExecutor in scan_bt_bleak: "none",
                      \* "running", "finished" (its future is set) or "joined"

vars == <<variant, system, once, wifi_only, bt_only, API_KEY, APP_URL, LATITUDE, LONGITUDE, pc,
          scan_count, total_pushed, wifi_nets, bt_devs_raw, all_devices, ok, result, http,
          server_processed, calls, summary, exc, env, ret, worker>>

-----------------------------------------------------------------------------
(* Python built-ins *)

None == <<>>

Get(d, k, default) == IF k \in DOMAIN d THEN d[k] ELSE default

UpperOf ==
       "a" :> "A"
    @@ "b" :> "B"
    @@ "c" :> "C"
    @@ "d" :> "D"
    @@ "e" :> "E"
    @@ "f" :> "F"
    @@ "g" :> "G"
    @@ "h" :> "H"
    @@ "i" :> "I"
    @@ "j" :> "J"
    @@ "k" :> "K"
    @@ "l" :> "L"
    @@ "m" :> "M"
    @@ "n" :> "N"
    @@ "o" :> "O"
    @@ "p" :> "P"
    @@ "q" :> "Q"
    @@ "r" :> "R"
    @@ "s" :> "S"
    @@ "t" :> "T"
    @@ "u" :> "U"
    @@ "v" :> "V"
    @@ "w" :> "W"
    @@ "x" :> "X"
    @@ "y" :> "Y"
    @@ "z" :> "Z"

LowerOf ==
       "A" :> "a"
    @@ "B" :> "b"
    @@ "C" :> "c"
    @@ "D" :> "d"
    @@ "E" :> "e"
    @@ "F" :> "f"
    @@ "G" :> "g"
    @@ "H" :> "h"
    @@ "I" :> "i"
    @@ "J" :> "j"
    @@ "K" :> "k"
    @@ "L" :> "l"
    @@ "M" :> "m"
    @@ "N" :> "n"
    @@ "O" :> "o"
    @@ "P" :> "p"
    @@ "Q" :> "q"
    @@ "R" :> "r"
    @@ "S" :> "s"
    @@ "T" :> "t"
    @@ "U" :> "u"
    @@ "V" :> "v"
    @@ "W" :> "w"
    @@ "X" :> "x"
    @@ "Y" :> "y"
    @@ "Z" :> "z"

\* s.upper()
RECURSIVE upper(_)
upper(s) ==
    IF s = "" THEN ""
    ELSE LET c == SubSeq(s, 1, 1)
         IN  (IF c \in DOMAIN UpperOf THEN UpperOf[c] ELSE c) \o upper(SubSeq(s, 2, Len(s)))

\* s.lower()
RECURSIVE lower(_)
lower(s) ==
    IF s = "" THEN ""
    ELSE LET c == SubSeq(s, 1, 1)
         IN  (IF c \in DOMAIN LowerOf THEN LowerOf[c] ELSE c) \o lower(SubSeq(s, 2, Len(s)))

\* s[:n]
Prefix(s, n) == SubSeq(s, 1, IF Len(s) < n THEN Len(s) ELSE n)

\* k in s, for strings
Contains(s, k) == \E i \in 1..(Len(s) - Len(k) + 1) : SubSeq(s, i, i + Len(k) - 1) = k

\* any(k in n for k in kws)
AnyIn(n, kws) == \E j \in 1..Len(kws) : Contains(n, kws[j])

\* x or d, for strings
OrElse(x, d) == IF x = "" THEN d ELSE x

\* int(pct / 2 - 100): true division, then truncation toward zero
PctToRssi(pct) == IF pct <= 200 THEN -((200 - pct) \div 2) ELSE (pct - 200) \div 2

-----------------------------------------------------------------------------
(* Addresses used by the environment *)

MAC_ZERO == "00:00:00:00:00:00"

MAC_JBL == "7C:D9:F4:AA:BB:CC"

mac_jbl == "7c:d9:f4:aa:bb:cc"

MAC_APPLE == "AC:BC:32:11:22:33"

MAC_TPLINK == "C4:E9:84:00:00:01"

MAC_TILE == "88:C6:26:00:00:07"

UUID_ADDR == "12345678-ABCD-4EF0-9876-0123456789AB"

\* OUI_DB of sigint_multi_collector.py
OUI_DB ==
       "00:50:F2" :> "Microsoft"
    @@ "00:0C:E7" :> "MediaTek"
    @@ "00:E0:4C" :> "Realtek"
    @@ "B0:7F:B9" :> "Netgear"
    @@ "C4:E9:84" :> "TP-Link"
    @@ "14:EB:B6" :> "TP-Link"
    @@ "04:D9:F5" :> "ASUS"
    @@ "1C:87:2C" :> "ASUS"
    @@ "78:8A:20" :> "Ubiquiti"
    @@ "F8:1E:DF" :> "Amazon"
    @@ "F0:F0:A4" :> "Amazon"
    @@ "30:FD:38" :> "Google"
    @@ "A4:83:E7" :> "Apple"
    @@ "3C:22:FB" :> "Apple"
    @@ "DC:2B:61" :> "Samsung"
    @@ "50:DC:E7" :> "Samsung"
    @@ "88:B4:A6" :> "Huawei"
    @@ "C8:47:8C" :> "Xiaomi"
    @@ "A0:C5:89" :> "Motorola"
    @@ "04:5D:4B" :> "Sony"
    @@ "8C:85:90" :> "Intel"
    @@ "A4:34:D9" :> "Intel"
    @@ "20:02:AF" :> "Broadcom"
    @@ "00:1A:2B" :> "Cisco"
    @@ "F0:9F:C2" :> "Cisco"
    @@ "48:5B:39" :> "Realtek"
    @@ "9C:B6:D0" :> "HP"
    @@ "B4:A5:EF" :> "AT&T"
    @@ "E8:ED:F3" :> "ARRIS"
    @@ "84:EA:ED" :> "Roku"
    @@ "48:A6:B8" :> "Sonos"
    @@ "44:07:0B" :> "Ring"
    @@ "2C:AA:8E" :> "Wyze"
    @@ "DC:56:E7" :> "Apple"
    @@ "F0:D4:15" :> "Apple"
    @@ "D4:F5:47" :> "Bose"
    @@ "04:52:C7" :> "Bose"
    @@ "7C:D9:F4" :> "JBL"
    @@ "88:C6:26" :> "Tile"
    @@ "74:75:48" :> "Amazon"
    @@ "F4:F5:D8" :> "Google"
    @@ "8C:DE:52" :> "Beats"
    @@ "2C:41:A1" :> "Bose"
    @@ "28:6C:07" :> "Xiaomi"
    @@ "00:18:09" :> "Garmin"

\* BT_OUI_DB of sigint_bluetooth_collector.py
BT_OUI_DB ==
       "A4:83:E7" :> "Apple"
    @@ "3C:22:FB" :> "Apple"
    @@ "DC:56:E7" :> "Apple"
    @@ "F0:D4:15" :> "Apple"
    @@ "78:7B:8A" :> "Apple"
    @@ "AC:BC:32" :> "Apple"
    @@ "DC:2B:61" :> "Samsung"
    @@ "50:DC:E7" :> "Samsung"
    @@ "88:B4:A6" :> "Huawei"
    @@ "C8:47:8C" :> "Xiaomi"
    @@ "A0:C5:89" :> "Motorola"
    @@ "04:5D:4B" :> "Sony"
    @@ "F8:1E:DF" :> "Amazon"
    @@ "44:07:0B" :> "Ring"
    @@ "2C:AA:8E" :> "Wyze"
    @@ "48:A6:B8" :> "Sonos"
    @@ "74:75:48" :> "Amazon"
    @@ "30:FD:38" :> "Google"
    @@ "F4:F5:D8" :> "Google"
    @@ "54:60:09" :> "Google"
    @@ "E8:48:B8" :> "Samsung"
    @@ "B0:BE:76" :> "Samsung"
    @@ "94:DB:56" :> "Sony"
    @@ "D4:F5:47" :> "Bose"
    @@ "04:52:C7" :> "Bose"
    @@ "2C:41:A1" :> "Bose"
    @@ "28:6C:07" :> "Xiaomi"
    @@ "8C:DE:52" :> "Beats"
    @@ "7C:D9:F4" :> "JBL"
    @@ "00:18:09" :> "Garmin"
    @@ "00:16:4E" :> "Nokia"
    @@ "88:C6:26" :> "Tile"
    @@ "E4:17:D8" :> "Tile"

\* OUI_DB of sigint_collector.py
WIFI_OUI_DB ==
       "00:50:F2" :> "Microsoft"
    @@ "00:0C:E7" :> "MediaTek"
    @@ "00:E0:4C" :> "Realtek"
    @@ "B0:7F:B9" :> "Netgear"
    @@ "C4:E9:84" :> "TP-Link"
    @@ "14:EB:B6" :> "TP-Link"
    @@ "04:D9:F5" :> "ASUS"
    @@ "1C:87:2C" :> "ASUS"
    @@ "78:8A:20" :> "Ubiquiti"
    @@ "F8:1E:DF" :> "Amazon"
    @@ "F0:F0:A4" :> "Amazon"
    @@ "30:FD:38" :> "Google"
    @@ "A4:83:E7" :> "Apple"
    @@ "3C:22:FB" :> "Apple"
    @@ "DC:2B:61" :> "Samsung"
    @@ "50:DC:E7" :> "Samsung"
    @@ "88:B4:A6" :> "Huawei"
    @@ "C8:47:8C" :> "Xiaomi"
    @@ "A0:C5:89" :> "Motorola"
    @@ "04:5D:4B" :> "Sony"
    @@ "8C:85:90" :> "Intel"
    @@ "A4:34:D9" :> "Intel"
    @@ "20:02:AF" :> "Broadcom"
    @@ "00:1A:2B" :> "Cisco"
    @@ "F0:9F:C2" :> "Cisco"
    @@ "48:5B:39" :> "Realtek"
    @@ "9C:B6:D0" :> "HP"
    @@ "B4:A5:EF" :> "AT&T"
    @@ "E8:ED:F3" :> "ARRIS"
    @@ "84:EA:ED" :> "Roku"
    @@ "48:A6:B8" :> "Sonos"
    @@ "44:07:0B" :> "Ring"
    @@ "2C:AA:8E" :> "Wyze"

\* keyword lists of classify_bt_device (the _BT lists are the Bluetooth collector's)
KW_AUDIO == <<"airpod", "buds", "earbuds", "wf-", "wh-", "jbl", "beats">>

KW_WEARABLE == <<"watch", "band", "fitbit", "garmin">>

KW_WEARABLE_BT == <<"watch", "band", "fitbit", "garmin", "mi band">>

KW_PHONE == <<"iphone", "galaxy", "pixel", "phone">>

KW_TABLET_BT == <<"ipad", "tab", "tablet">>

KW_TRACKER == <<"tile", "airtag", "smarttag">>

KW_PERIPHERAL == <<"keyboard", "mouse", "controller">>

KW_SPEAKER == <<"speaker", "sonos", "echo">>

KW_SPEAKER_BT == <<"speaker", "sonos", "echo", "homepod">>

KW_TV_BT == <<"tv", "roku", "fire", "chromecast">>

KW_HOME_BT == <<"ring", "nest", "wyze", "cam">>

-----------------------------------------------------------------------------
(* Enrichment: manufacturer lookup, channel frequency, classification *)

is_uuid_address(addr) == Len(addr) > 17 \/ (\E i \in 1..Len(addr) : SubSeq(addr, i, i) = "-")

\* lookup_manufacturer without the upper(): OUI_DB.get(mac[:8], "Unknown")
lookup_manufacturer_cased(mac) ==
    IF is_uuid_address(mac) THEN "Unknown (macOS UUID)"
    ELSE LET prefix == Prefix(mac, 8)
         IN  Get(OUI_DB, prefix, "Unknown")

\* sigint_multi_collector.py
lookup_manufacturer(mac) ==
    IF is_uuid_address(mac) THEN "Unknown (macOS UUID)"
    ELSE LET prefix == upper(Prefix(mac, 8))
         IN  Get(OUI_DB, prefix, "Unknown")

\* sigint_bluetooth_collector.py
bt_lookup_manufacturer(mac) ==
    IF is_uuid_address(mac) THEN "Unknown (macOS UUID)"
    ELSE LET prefix == upper(Prefix(mac, 8))
         IN  Get(BT_OUI_DB, prefix, "Unknown")

\* sigint_collector.py
wifi_lookup_manufacturer(bssid) ==
    LET prefix == upper(Prefix(bssid, 8))
    IN  Get(WIFI_OUI_DB, prefix, "Unknown")

\* channel_to_freq with channel 14 on the linear formula
channel_to_freq_linear(channel) ==
    IF 1 <= channel /\ channel <= 14
    THEN <<2407 + channel * 5>>
    ELSE IF 36 <= channel /\ channel <= 165
         THEN <<5000 + channel * 5>>
         ELSE None

\* MHz; the same function in sigint_multi_collector.py and sigint_collector.py
channel_to_freq(channel) ==
    IF 1 <= channel /\ channel <= 14
    THEN (IF channel # 14 THEN <<2407 + channel * 5>> ELSE <<2484>>)
    ELSE IF 36 <= channel /\ channel <= 165
         THEN <<5000 + channel * 5>>
         ELSE None

\* sigint_collector.py
radio_to_protocol(radio_str) ==
    IF radio_str = "" THEN "802.11"
    ELSE LET r == lower(radio_str)
         IN  IF Contains(r, "ax") \/ Contains(r, "wifi 6")
                \/ Contains(r, "wi-fi 6") THEN "802.11ax"
             ELSE IF Contains(r, "ac") \/ Contains(r, "wifi 5") THEN "802.11ac"
             ELSE IF Contains(r, "n") \/ Contains(r, "wifi 4") THEN "802.11n"
             ELSE IF Contains(r, "g") THEN "802.11g"
             ELSE IF Contains(r, "a") THEN "802.11a"
             ELSE IF Contains(r, "b") THEN "802.11b"
             ELSE "802.11"

\* sigint_multi_collector.py
classify_bt_device(name) ==
    LET n == lower(name)
    IN  IF AnyIn(n, KW_AUDIO) THEN "Audio / Headphones"
        ELSE IF AnyIn(n, KW_WEARABLE) THEN "Wearable"
        ELSE IF AnyIn(n, KW_PHONE) THEN "Smartphone"
        ELSE IF AnyIn(n, KW_TRACKER) THEN "Tracker"
        ELSE IF AnyIn(n, KW_PERIPHERAL) THEN "Peripheral"
        ELSE IF AnyIn(n, KW_SPEAKER) THEN "Smart Speaker"
        ELSE "Bluetooth Device"

\* sigint_bluetooth_collector.py
bt_classify_bt_device(name, manufacturer) ==
    LET name_lower == lower(name)
    IN  IF AnyIn(name_lower, KW_AUDIO) THEN "Audio / Headphones"
        ELSE IF AnyIn(name_lower, KW_WEARABLE_BT) THEN "Wearable"
        ELSE IF AnyIn(name_lower, KW_PHONE) THEN "Smartphone"
        ELSE IF AnyIn(name_lower, KW_TABLET_BT) THEN "Tablet"
        ELSE IF AnyIn(name_lower, KW_TRACKER) THEN "Tracker"
        ELSE IF AnyIn(name_lower, KW_PERIPHERAL) THEN "Peripheral"
        ELSE IF AnyIn(name_lower, KW_SPEAKER_BT) THEN "Smart Speaker"
        ELSE IF AnyIn(name_lower, KW_TV_BT) THEN "Smart TV / Streaming"
        ELSE IF AnyIn(name_lower, KW_HOME_BT) THEN "Smart Home"
        ELSE "Bluetooth Device"

-----------------------------------------------------------------------------
(* Normalization: raw sightings to canonical records *)

\* WithCoords with each coordinate attached on its own:
\* if LATITUDE is not None: ...; if LONGITUDE is not None: ...
WithCoords_each(device, lat, lng) ==
    (IF lat # None THEN [latitude |-> lat[1]] ELSE <<>>)
    @@ (IF lng # None THEN [longitude |-> lng[1]] ELSE <<>>)
    @@ device

\* if LATITUDE is not None and LONGITUDE is not None: attach both
WithCoords(device, lat, lng) ==
    IF lat # None /\ lng # None
    THEN device @@ [latitude |-> lat[1], longitude |-> lng[1]]
    ELSE device

RECURSIVE format_wifi_loop(_, _, _, _)
format_wifi_loop(networks, devices, lat, lng) ==
    IF networks = <<>> THEN devices
    ELSE LET net == Head(networks)
             bssid == Get(net, "bssid", "")
             ssid == OrElse(Get(net, "ssid", "Hidden Network"), "Hidden Network")
             channel == Get(net, "channel", 0)
             device == [macAddress |-> bssid, name |-> ssid, signalType |-> "wifi",
                        deviceType |-> "Wi-Fi Network",
                        manufacturer |-> lookup_manufacturer(bssid),
                        signalStrength |-> Get(net, "rssi", -80),
                        frequency |-> channel_to_freq(channel), channel |-> channel,
                        protocol |-> "802.11",
                        encryption |-> Get(net, "auth", "Unknown")]
         IN  IF bssid = "" \/ bssid = MAC_ZERO
             THEN format_wifi_loop(Tail(networks), devices, lat, lng)
             ELSE format_wifi_loop(Tail(networks),
                                   Append(devices, WithCoords(device, lat, lng)), lat, lng)

\* sigint_multi_collector.py
format_wifi_devices(networks, lat, lng) == format_wifi_loop(networks, <<>>, lat, lng)

\* format_bt_loop with `d.get("type", "ble")`: a sighting without a type is
\* taken as low-energy
RECURSIVE format_bt_loop_ble(_, _, _, _)
format_bt_loop_ble(bt_devices, devices, lat, lng) ==
    IF bt_devices = <<>> THEN devices
    ELSE LET d == Head(bt_devices)
             mac == Get(d, "mac", "")
             name == Get(d, "name", "Unknown")
             bt_type == Get(d, "type", "ble")
             device == [macAddress |-> mac, name |-> name, signalType |-> "bluetooth",
                        deviceType |-> classify_bt_device(name),
                        manufacturer |-> lookup_manufacturer(mac),
                        signalStrength |-> Get(d, "rssi", -80),
                        frequency |-> IF bt_type = "ble" THEN <<2402>> ELSE <<2440>>,
                        protocol |-> IF bt_type = "ble" THEN "BLE 5.0" ELSE "Bluetooth Classic",
                        encryption |-> IF bt_type = "ble" THEN "AES-CCM" ELSE "E0/AES"]
         IN  IF mac = ""
             THEN format_bt_loop_ble(Tail(bt_devices), devices, lat, lng)
             ELSE format_bt_loop_ble(Tail(bt_devices),
                                     Append(devices, WithCoords(device, lat, lng)), lat, lng)

RECURSIVE format_bt_loop(_, _, _, _)
format_bt_loop(bt_devices, devices, lat, lng) ==
    IF bt_devices = <<>> THEN devices
    ELSE LET d == Head(bt_devices)
             mac == Get(d, "mac", "")
             name == Get(d, "name", "Unknown")
             bt_type == Get(d, "type", "classic")
             device == [macAddress |-> mac, name |-> name, signalType |-> "bluetooth",
                        deviceType |-> classify_bt_device(name),
                        manufacturer |-> lookup_manufacturer(mac),
                        signalStrength |-> Get(d, "rssi", -80),
                        frequency |-> IF bt_type = "ble" THEN <<2402>> ELSE <<2440>>,
                        protocol |-> IF bt_type = "ble" THEN "BLE 5.0" ELSE "Bluetooth Classic",
                        encryption |-> IF bt_type = "ble" THEN "AES-CCM" ELSE "E0/AES"]
         IN  IF mac = ""
             THEN format_bt_loop(Tail(bt_devices), devices, lat, lng)
             ELSE format_bt_loop(Tail(bt_devices),
                                 Append(devices, WithCoords(device, lat, lng)), lat, lng)

\* sigint_multi_collector.py
format_bt_devices(bt_devices, lat, lng) == format_bt_loop(bt_devices, <<>>, lat, lng)

RECURSIVE bt_format_loop(_, _, _, _)
bt_format_loop(bt_devices, devices, lat, lng) ==
    IF bt_devices = <<>> THEN devices
    ELSE LET d == Head(bt_devices)
             mac == Get(d, "mac", "")
             name == Get(d, "name", "Unknown Device")
             manufacturer == bt_lookup_manufacturer(mac)
             device_type == bt_classify_bt_device(name, manufacturer)
             bt_type == Get(d, "type", "classic")
             rssi == Get(d, "rssi", -80)
             device == [macAddress |-> mac, name |-> name, signalType |-> "bluetooth",
                        deviceType |-> device_type,
                        manufacturer |-> manufacturer,
                        signalStrength |-> rssi,
                        frequency |-> IF bt_type = "ble" THEN <<2402>> ELSE <<2440>>,
                        protocol |-> IF bt_type = "ble" THEN "BLE 5.0" ELSE "Bluetooth Classic",
                        encryption |-> IF bt_type = "ble" THEN "AES-CCM" ELSE "E0/AES"]
         IN  IF mac = "" \/ mac = MAC_ZERO
             THEN bt_format_loop(Tail(bt_devices), devices, lat, lng)
             ELSE bt_format_loop(Tail(bt_devices),
                                 Append(devices, WithCoords(device, lat, lng)), lat, lng)

\* sigint_bluetooth_collector.py format_devices
bt_format_devices(bt_devices, lat, lng) == bt_format_loop(bt_devices, <<>>, lat, lng)

RECURSIVE wifi_format_loop(_, _, _, _)
wifi_format_loop(networks, devices, lat, lng) ==
    IF networks = <<>> THEN devices
    ELSE LET net == Head(networks)
             bssid == Get(net, "bssid", "")
             ssid == OrElse(Get(net, "ssid", "Hidden Network"), "Hidden Network")
             channel == Get(net, "channel", 0)
             freq == channel_to_freq(channel)
             manufacturer == wifi_lookup_manufacturer(bssid)
             device == [macAddress |-> bssid, name |-> ssid, signalType |-> "wifi",
                        deviceType |-> "Wi-Fi Network",
                        manufacturer |-> manufacturer,
                        signalStrength |-> Get(net, "rssi", -80),
                        frequency |-> freq, channel |-> channel,
                        protocol |-> radio_to_protocol(Get(net, "radio", "")),
                        encryption |-> Get(net, "auth", "Unknown")]
         IN  IF bssid = "" \/ bssid = MAC_ZERO
             THEN wifi_format_loop(Tail(networks), devices, lat, lng)
             ELSE wifi_format_loop(Tail(networks),
                                   Append(devices, WithCoords(device, lat, lng)), lat, lng)

\* sigint_collector.py format_devices
wifi_format_devices(networks, lat, lng) == wifi_format_loop(networks, <<>>, lat, lng)

-----------------------------------------------------------------------------
(* Backend adapters.                                                       *)
(* An outcome of subprocess.run is a record [kind, rc, lines]: kind "ok"   *)
(* (the tool ran: its exit status rc and its output lines, each line the   *)
(* groups of the adapter's regular expression), "FileNotFoundError",       *)
(* "TimeoutExpired" or "OtherError" (any other exception, e.g. a           *)
(* PermissionError or a UnicodeDecodeError of the output).                 *)

Ret(st, val, c) == [st |-> st, val |-> val, calls |-> c]

\* not any(d["mac"] == mac for d in devices)
NotSeen(devices, mac) == \A i \in 1..Len(devices) : devices[i].mac # mac

\* sigint_multi_collector.py scan_bt_linux, the loop over the lines of hcitool scan
RECURSIVE hcitool_scan_loop(_, _)
hcitool_scan_loop(lines, devices) ==
    IF lines = <<>> THEN devices
    ELSE LET m == Head(lines)
         IN  hcitool_scan_loop(Tail(lines),
                 Append(devices, [mac |-> upper(m.mac), name |-> OrElse(m.name, "Unknown"),
                                  type |-> "classic", rssi |-> -70]))

\* bluetoothctl_loop without its `if not any(d["mac"] == mac ...)` test: every
\* line is appended
RECURSIVE bluetoothctl_loop_append(_, _)
bluetoothctl_loop_append(lines, devices) ==
    IF lines = <<>> THEN devices
    ELSE LET m == Head(lines)
         IN  bluetoothctl_loop_append(Tail(lines),
                 Append(devices, [mac |-> upper(m.mac), name |-> m.name,
                                  type |-> "classic", rssi |-> -65]))

\* sigint_multi_collector.py scan_bt_linux and sigint_bluetooth_collector.py
\* scan_bluetooth_linux_hcitool, the loop over the lines of bluetoothctl devices
RECURSIVE bluetoothctl_loop(_, _)
bluetoothctl_loop(lines, devices) ==
    IF lines = <<>> THEN devices
    ELSE LET m == Head(lines)
             mac == upper(m.mac)
         IN  IF NotSeen(devices, mac)
             THEN bluetoothctl_loop(Tail(lines),
                      Append(devices, [mac |-> mac, name |-> m.name,
                                       type |-> "classic", rssi |-> -65]))
             ELSE bluetoothctl_loop(Tail(lines), devices)

\* one try block around a subprocess.run that catches FileNotFoundError and
\* TimeoutExpired: the devices after it, or "raise"
TryTool(o, devices, after) ==
    IF o.kind = "ok" THEN Ret("ok", after, <<>>)
    ELSE IF o.kind \in {"FileNotFoundError", "TimeoutExpired"} THEN Ret("ok", devices, <<>>)
    ELSE Ret("raise", <<o.kind>>, <<>>)

\* sigint_multi_collector.py
scan_bt_linux(h, b) ==
    LET r1 == TryTool(h, <<>>, hcitool_scan_loop(h.lines, <<>>))
        r2 == TryTool(b, r1.val, bluetoothctl_loop(b.lines, r1.val))
    IN  IF r1.st = "raise" THEN Ret("raise", r1.val, <<"hcitool scan">>)
        ELSE IF r2.st = "raise" THEN Ret("raise", r2.val, <<"hcitool scan", "bluetoothctl">>)
        ELSE Ret("ok", r2.val, <<"hcitool scan", "bluetoothctl">>)

\* d.rssi or -80 (d.rssi is None, 0 or a number)
RssiOr(rssi, d) == IF rssi = None \/ rssi = <<0>> THEN d ELSE rssi[1]

\* sigint_multi_collector.py scan_bt_bleak, do_scan's list comprehension
RECURSIVE bleak_found(_, _)
bleak_found(found, out) ==
    IF found = <<>> THEN out
    ELSE LET d == Head(found)
         IN  bleak_found(Tail(found),
                 Append(out, [mac |-> upper(d.address), name |-> OrElse(d.name, "Unknown BLE"),
                              type |-> "ble", rssi |-> RssiOr(d.rssi, -80)]))

\* sigint_multi_collector.py; k.kind is "ImportError" (bleak is not installed),
\* "ok" (discover returned k.found) or "Exception" (anything else raised in the scan)
scan_bt_bleak(k) ==
    IF k.kind = "ImportError" THEN Ret("None", <<>>, <<"bleak">>)
    ELSE IF k.kind = "ok" THEN Ret("ok", bleak_found(k.found, <<>>), <<"bleak">>)
    ELSE Ret("ok", <<>>, <<"bleak">>)

\* scan_bluetooth raising when no adapter is usable: raise RuntimeError
\* in place of the final `return []`
scan_bluetooth_strict(sys, h, b, k) ==
    IF sys = "Linux"
    THEN LET devices == scan_bt_linux(h, b)
             bleak == scan_bt_bleak(k)
         IN  IF devices.st = "raise" THEN devices
             ELSE IF devices.val = <<>>
                  THEN (IF bleak.st # "None"
                        THEN Ret("ok", bleak.val, devices.calls \o bleak.calls)
                        ELSE Ret("raise", <<"RuntimeError">>, devices.calls \o bleak.calls))
                  ELSE devices
    ELSE LET bleak == scan_bt_bleak(k)
         IN  IF bleak.st # "None" THEN bleak
             ELSE Ret("raise", <<"RuntimeError">>, bleak.calls)

\* sigint_multi_collector.py
scan_bluetooth(sys, h, b, k) ==
    IF sys = "Linux"
    THEN LET devices == scan_bt_linux(h, b)
             bleak == scan_bt_bleak(k)
         IN  IF devices.st = "raise" THEN devices
             ELSE IF devices.val = <<>>
                  THEN (IF bleak.st # "None"
                        THEN Ret("ok", bleak.val, devices.calls \o bleak.calls)
                        ELSE Ret("ok", devices.val, devices.calls \o bleak.calls))
                  ELSE devices
    ELSE LET bleak == scan_bt_bleak(k)
         IN  IF bleak.st # "None" THEN bleak ELSE Ret("ok", <<>>, bleak.calls)

\* sigint_bluetooth_collector.py scan_bluetooth_linux_hcitool, the loop over hcitool scan
RECURSIVE bt_hcitool_scan_loop(_, _)
bt_hcitool_scan_loop(lines, devices) ==
    IF lines = <<>> THEN devices
    ELSE LET match == Head(lines)
             mac == upper(match.mac)
             name == OrElse(match.name, "Unknown Device")
         IN  bt_hcitool_scan_loop(Tail(lines),
                 Append(devices, [mac |-> mac, name |-> name, type |-> "classic", rssi |-> -70]))

\* sigint_bluetooth_collector.py scan_bluetooth_linux_hcitool, the loop over hcitool lescan
RECURSIVE bt_lescan_loop(_, _)
bt_lescan_loop(lines, devices) ==
    IF lines = <<>> THEN devices
    ELSE LET match == Head(lines)
             mac == upper(match.mac)
             name == match.name
         IN  IF name # "" /\ name # "(unknown)" /\ NotSeen(devices, mac)
             THEN bt_lescan_loop(Tail(lines),
                      Append(devices, [mac |-> mac, name |-> name, type |-> "ble", rssi |-> -75]))
             ELSE bt_lescan_loop(Tail(lines), devices)

\* sigint_bluetooth_collector.py
bt_scan_bluetooth_linux_hcitool(h, l, b) ==
    LET r1 == TryTool(h, <<>>, bt_hcitool_scan_loop(h.lines, <<>>))
        r2 == TryTool(l, r1.val, bt_lescan_loop(l.lines, r1.val))
        r3 == TryTool(b, r2.val, bluetoothctl_loop(b.lines, r2.val))
    IN  IF r1.st = "raise" THEN Ret("raise", r1.val, <<"hcitool scan">>)
        ELSE IF r2.st = "raise" THEN Ret("raise", r2.val, <<"hcitool scan", "hcitool lescan">>)
        ELSE IF r3.st = "raise"
             THEN Ret("raise", r3.val, <<"hcitool scan", "hcitool lescan", "bluetoothctl">>)
             ELSE Ret("ok", r3.val, <<"hcitool scan", "hcitool lescan", "bluetoothctl">>)

\* sigint_bluetooth_collector.py scan_bluetooth_bleak, do_scan's loop
RECURSIVE bt_bleak_found(_, _)
bt_bleak_found(found, results) ==
    IF found = <<>> THEN results
    ELSE LET d == Head(found)
             addr == upper(d.address)
         IN  bt_bleak_found(Tail(found),
                 Append(results, [mac |-> addr, name |-> OrElse(d.name, "Unknown BLE Device"),
                                  type |-> "ble", rssi |-> RssiOr(d.rssi, -80),
                                  is_uuid |-> is_uuid_address(addr)]))

\* sigint_bluetooth_collector.py
bt_scan_bluetooth_bleak(k) ==
    IF k.kind = "ImportError" THEN Ret("None", <<>>, <<"bleak">>)
    ELSE IF k.kind = "ok" THEN Ret("ok", bt_bleak_found(k.found, <<>>), <<"bleak">>)
    ELSE Ret("ok", <<>>, <<"bleak">>)

\* sigint_bluetooth_collector.py scan_bluetooth
bt_scan_bluetooth(sys, h, l, b, k) ==
    IF sys = "Linux"
    THEN LET devices == bt_scan_bluetooth_linux_hcitool(h, l, b)
             bleak_devices == bt_scan_bluetooth_bleak(k)
         IN  IF devices.st = "raise" THEN devices
             ELSE IF devices.val = <<>>
                  THEN (IF bleak_devices.st # "None"
                        THEN Ret("ok", bleak_devices.val, devices.calls \o bleak_devices.calls)
                        ELSE Ret("ok", devices.val, devices.calls \o bleak_devices.calls))
                  ELSE devices
    ELSE LET bleak_devices == bt_scan_bluetooth_bleak(k)
         IN  IF bleak_devices.st # "None" THEN bleak_devices
             ELSE Ret("ok", <<>>, bleak_devices.calls)

-----------------------------------------------------------------------------
(* Wi-Fi backends *)

\* s.strip(), for blanks
RECURSIVE strip(_)
strip(s) ==
    IF s = "" THEN ""
    ELSE IF SubSeq(s, 1, 1) = " " THEN strip(SubSeq(s, 2, Len(s)))
    ELSE IF SubSeq(s, Len(s), Len(s)) = " " THEN strip(SubSeq(s, 1, Len(s) - 1))
    ELSE s

\* ":".join(parts)
RECURSIVE join(_)
join(parts) ==
    IF parts = <<>> THEN ""
    ELSE IF Len(parts) = 1 THEN parts[1]
    ELSE parts[1] \o ":" \o join(Tail(parts))

DigitOf == "0" :> 0 @@ "1" :> 1 @@ "2" :> 2 @@ "3" :> 3 @@ "4" :> 4
        @@ "5" :> 5 @@ "6" :> 6 @@ "7" :> 7 @@ "8" :> 8 @@ "9" :> 9

IsDigits(s) == s # "" /\ \A i \in 1..Len(s) : SubSeq(s, i, i) \in DOMAIN DigitOf

RECURSIVE DigitsValue(_, _)
DigitsValue(s, acc) ==
    IF s = "" THEN acc
    ELSE DigitsValue(SubSeq(s, 2, Len(s)), acc * 10 + DigitOf[SubSeq(s, 1, 1)])

\* try: int(s.strip()) except ValueError: 0
IntOrZero(s) ==
    LET t == strip(s)
    IN  IF IsDigits(t) THEN DigitsValue(t, 0)
        ELSE IF Len(t) > 1 /\ SubSeq(t, 1, 1) = "-" /\ IsDigits(SubSeq(t, 2, Len(t)))
             THEN -DigitsValue(SubSeq(t, 2, Len(t)), 0)
        ELSE IF Len(t) > 1 /\ SubSeq(t, 1, 1) = "+" /\ IsDigits(SubSeq(t, 2, Len(t)))
             THEN DigitsValue(SubSeq(t, 2, Len(t)), 0)
        ELSE 0

\* sigint_multi_collector.py scan_wifi_macos_corewlan, the loop over networks; a
\* network is [bssid, ssid ("" for None), rssi, channel (None: no wlanChannel)]
RECURSIVE corewlan_loop(_, _)
corewlan_loop(networks, results) ==
    IF networks = <<>> THEN results
    ELSE LET network == Head(networks)
             bssid == network.bssid
             channel == IF network.channel # None THEN network.channel[1] ELSE 0
         IN  IF bssid = "" THEN corewlan_loop(Tail(networks), results)
             ELSE corewlan_loop(Tail(networks),
                      Append(results, [ssid |-> OrElse(network.ssid, "Hidden Network"),
                                       bssid |-> upper(bssid), rssi |-> network.rssi,
                                       channel |-> channel, auth |-> "Unknown"]))

\* sigint_multi_collector.py; c.kind is "ImportError" (CoreWLAN is not installed),
\* "no interface", "scan error", "Exception" or "ok" (the scan returned c.networks)
scan_wifi_macos_corewlan(c) ==
    IF c.kind = "ImportError" THEN Ret("None", <<>>, <<"CoreWLAN">>)
    ELSE IF c.kind = "ok" THEN Ret("ok", corewlan_loop(c.networks, <<>>), <<"CoreWLAN">>)
    ELSE Ret("ok", <<>>, <<"CoreWLAN">>)

\* the loop over the lines of airport -s that match; a line is the regular
\* expression's groups [ssid, bssid, rssi, channel, auth]
RECURSIVE airport_loop(_, _)
airport_loop(lines, networks) ==
    IF lines = <<>> THEN networks
    ELSE LET m == Head(lines)
         IN  airport_loop(Tail(lines),
                 Append(networks, [ssid |-> strip(m.ssid), bssid |-> upper(m.bssid),
                                   rssi |-> m.rssi, channel |-> m.channel, auth |-> m.auth]))

\* sigint_multi_collector.py; a.kind is "absent" (os.path.exists is false) or an
\* outcome of subprocess.run
scan_wifi_macos_airport(a) ==
    IF a.kind = "absent" THEN Ret("None", <<>>, <<"airport">>)
    ELSE IF a.kind = "ok"
         THEN (IF a.rc # 0 THEN Ret("None", <<>>, <<"airport">>)
               ELSE LET networks == airport_loop(a.lines, <<>>)
                    IN  IF networks # <<>> THEN Ret("ok", networks, <<"airport">>)
                        ELSE Ret("None", <<>>, <<"airport">>))
    ELSE IF a.kind \in {"FileNotFoundError", "TimeoutExpired"} THEN Ret("None", <<>>, <<"airport">>)
    ELSE Ret("raise", <<a.kind>>, <<"airport">>)

\* scan_wifi_macos with the airport adapter's answer thrown away: the adapter is
\* called but its networks are not returned
scan_wifi_macos_dropped(c, a) ==
    LET networks == scan_wifi_macos_corewlan(c)
        networks2 == scan_wifi_macos_airport(a)
    IN  IF networks.st # "None" THEN networks
        ELSE IF networks2.st = "raise" THEN Ret("raise", networks2.val, networks.calls \o networks2.calls)
        ELSE Ret("ok", <<>>, networks.calls \o networks2.calls)

\* sigint_multi_collector.py
scan_wifi_macos(c, a) ==
    LET networks == scan_wifi_macos_corewlan(c)
        networks2 == scan_wifi_macos_airport(a)
    IN  IF networks.st # "None" THEN networks
        ELSE IF networks2.st = "raise" THEN Ret("raise", networks2.val, networks.calls \o networks2.calls)
        ELSE IF networks2.st # "None" THEN Ret("ok", networks2.val, networks.calls \o networks2.calls)
        ELSE Ret("ok", <<>>, networks.calls \o networks2.calls)

\* One stripped line of netsh's output: [tag, matched, val], tag the prefix the
\* line starts with ("SSID", "BSSID", "Signal", "Channel", "Authentication",
\* "Radio type", "Network type", "Encryption" or "other"), matched whether the
\* branch's regular expression matches, val its group (a number for Signal and
\* Channel, the stripped text otherwise).
\* sigint_multi_collector.py scan_wifi_windows, the if/elif chain on one line
netsh_line(current, line) ==
    IF ~line.matched THEN current
    ELSE IF line.tag = "SSID" THEN ("ssid" :> line.val) @@ current
    ELSE IF line.tag = "BSSID" THEN ("bssid" :> upper(line.val)) @@ current
    ELSE IF line.tag = "Signal" THEN ("rssi" :> PctToRssi(line.val)) @@ current
    ELSE IF line.tag = "Channel" THEN ("channel" :> line.val) @@ current
    ELSE IF line.tag = "Authentication" THEN ("auth" :> line.val) @@ current
    ELSE IF line.tag = "Radio type" THEN ("radio" :> line.val) @@ current
    ELSE current

RECURSIVE netsh_loop(_, _, _)
netsh_loop(lines, current, networks) ==
    IF lines = <<>> THEN networks
    ELSE LET cur == netsh_line(current, Head(lines))
         IN  IF "bssid" \in DOMAIN cur /\ "rssi" \in DOMAIN cur
             THEN netsh_loop(Tail(lines), [ssid |-> Get(cur, "ssid", "")], Append(networks, cur))
             ELSE netsh_loop(Tail(lines), cur, networks)

\* sigint_multi_collector.py; the empty dict is the function with no domain
scan_wifi_windows(n) ==
    IF n.kind = "ok"
    THEN (IF n.rc # 0 THEN Ret("ok", <<>>, <<"netsh">>)
          ELSE Ret("ok", netsh_loop(n.lines, <<>>, <<>>), <<"netsh">>))
    ELSE IF n.kind \in {"FileNotFoundError", "TimeoutExpired"} THEN Ret("ok", <<>>, <<"netsh">>)
    ELSE Ret("raise", <<n.kind>>, <<"netsh">>)

\* One line of nmcli's output is line.split(":"), a list of strings.
\* sigint_multi_collector.py scan_wifi_linux, the loop over the lines
RECURSIVE nmcli_loop(_, _)
nmcli_loop(lines, networks) ==
    IF lines = <<>> THEN networks
    ELSE LET parts == Head(lines)
             bssid == upper(strip(join(SubSeq(parts, 1, 6))))
             fields == SubSeq(parts, 7, Len(parts))
         IN  IF Len(parts) >= 6 /\ Len(fields) >= 5
             THEN LET signal_pct == IntOrZero(fields[2])
                      channel == IntOrZero(fields[3])
                  IN  nmcli_loop(Tail(lines),
                          Append(networks, [bssid |-> bssid, ssid |-> strip(fields[1]),
                                            rssi |-> PctToRssi(signal_pct), channel |-> channel,
                                            auth |-> strip(fields[4]), radio |-> strip(fields[5])]))
             ELSE nmcli_loop(Tail(lines), networks)

\* sigint_multi_collector.py
scan_wifi_linux(n) ==
    IF n.kind = "ok"
    THEN (IF n.rc # 0 THEN Ret("ok", <<>>, <<"nmcli">>)
          ELSE Ret("ok", nmcli_loop(n.lines, <<>>), <<"nmcli">>))
    ELSE IF n.kind \in {"FileNotFoundError", "TimeoutExpired"} THEN Ret("ok", <<>>, <<"nmcli">>)
    ELSE Ret("raise", <<n.kind>>, <<"nmcli">>)

\* sigint_multi_collector.py; w holds the outcome of each Wi-Fi tool
scan_wifi(sys, w) ==
    IF sys = "Windows" THEN scan_wifi_windows(w.netsh)
    ELSE IF sys = "Darwin" THEN scan_wifi_macos(w.corewlan, w.airport)
    ELSE IF sys = "Linux" THEN scan_wifi_linux(w.nmcli)
    ELSE Ret("ok", <<>>, <<>>)

\* sigint_collector.py scan_wifi_windows, the if/elif chain on one line
wifi_netsh_line(current, line) ==
    IF ~line.matched THEN current
    ELSE IF line.tag = "SSID" THEN ("ssid" :> line.val) @@ current
    ELSE IF line.tag = "BSSID" THEN ("bssid" :> upper(line.val)) @@ current
    ELSE IF line.tag = "Signal"
         THEN ("signal_pct" :> line.val) @@ ("rssi" :> PctToRssi(line.val)) @@ current
    ELSE IF line.tag = "Channel" THEN ("channel" :> line.val) @@ current
    ELSE IF line.tag = "Network type" THEN ("network_type" :> line.val) @@ current
    ELSE IF line.tag = "Authentication" THEN ("auth" :> line.val) @@ current
    ELSE IF line.tag = "Encryption" THEN ("encryption" :> line.val) @@ current
    ELSE IF line.tag = "Radio type" THEN ("radio" :> line.val) @@ current
    ELSE current

RECURSIVE wifi_netsh_loop(_, _, _)
wifi_netsh_loop(lines, current, networks) ==
    IF lines = <<>> THEN networks
    ELSE LET cur == wifi_netsh_line(current, Head(lines))
         IN  IF "bssid" \in DOMAIN cur /\ "rssi" \in DOMAIN cur
             THEN wifi_netsh_loop(Tail(lines), [ssid |-> Get(cur, "ssid", "")],
                                  Append(networks, cur))
             ELSE wifi_netsh_loop(Tail(lines), cur, networks)

\* sigint_collector.py scan_wifi_windows
wifi_scan_wifi_windows(n) ==
    IF n.kind = "ok"
    THEN (IF n.rc # 0 THEN Ret("ok", <<>>, <<"netsh">>)
          ELSE Ret("ok", wifi_netsh_loop(n.lines, <<>>, <<>>), <<"netsh">>))
    ELSE IF n.kind \in {"FileNotFoundError", "TimeoutExpired"} THEN Ret("ok", <<>>, <<"netsh">>)
    ELSE Ret("raise", <<n.kind>>, <<"netsh">>)

\* sigint_collector.py scan_wifi_linux, the loop over the lines
RECURSIVE wifi_nmcli_loop(_, _)
wifi_nmcli_loop(lines, networks) ==
    IF lines = <<>> THEN networks
    ELSE LET parts == Head(lines)
             bssid == upper(strip(join(SubSeq(parts, 1, 6))))
             fields == SubSeq(parts, 7, Len(parts))
         IN  IF Len(parts) >= 6 /\ Len(fields) >= 5
             THEN LET ssid == strip(fields[1])
                      signal_pct == IntOrZero(fields[2])
                      channel == IntOrZero(fields[3])
                      security == strip(fields[4])
                      freq == strip(fields[5])
                  IN  wifi_nmcli_loop(Tail(lines),
                          Append(networks, [bssid |-> bssid, ssid |-> ssid,
                                            signal_pct |-> signal_pct,
                                            rssi |-> PctToRssi(signal_pct), channel |-> channel,
                                            auth |-> security, encryption |-> security,
                                            radio |-> freq]))
             ELSE wifi_nmcli_loop(Tail(lines), networks)

\* sigint_collector.py scan_wifi_linux: only FileNotFoundError is caught; after a
\* non-zero exit status of nmcli, iw is the outcome of "sudo iwlist scan"
wifi_scan_wifi_linux(n, iw) ==
    IF n.kind = "ok"
    THEN (IF n.rc # 0
          THEN (IF iw.kind \in {"ok", "FileNotFoundError"}
                THEN Ret("ok", <<>>, <<"nmcli", "iwlist">>)
                ELSE Ret("raise", <<iw.kind>>, <<"nmcli", "iwlist">>))
          ELSE Ret("ok", wifi_nmcli_loop(n.lines, <<>>), <<"nmcli">>))
    ELSE IF n.kind = "FileNotFoundError" THEN Ret("ok", <<>>, <<"nmcli">>)
    ELSE Ret("raise", <<n.kind>>, <<"nmcli">>)

\* sigint_collector.py scan_wifi_macos, the loop over the lines that match
RECURSIVE wifi_airport_loop(_, _)
wifi_airport_loop(lines, networks) ==
    IF lines = <<>> THEN networks
    ELSE LET match == Head(lines)
             pct == (match.rssi + 100) * 2
         IN  wifi_airport_loop(Tail(lines),
                 Append(networks, [ssid |-> strip(match.ssid), bssid |-> upper(match.bssid),
                                   rssi |-> match.rssi,
                                   signal_pct |-> IF pct < 0 THEN 0 ELSE IF pct > 100 THEN 100 ELSE pct,
                                   channel |-> match.channel, auth |-> match.auth,
                                   encryption |-> match.auth]))

\* sigint_collector.py scan_wifi_macos: only FileNotFoundError is caught (a missing
\* airport binary raises it: there is no os.path.exists test here)
wifi_scan_wifi_macos(a) ==
    IF a.kind = "ok"
    THEN (IF a.rc # 0 THEN Ret("ok", <<>>, <<"airport">>)
          ELSE Ret("ok", wifi_airport_loop(a.lines, <<>>), <<"airport">>))
    ELSE IF a.kind \in {"FileNotFoundError", "absent"} THEN Ret("ok", <<>>, <<"airport">>)
    ELSE Ret("raise", <<a.kind>>, <<"airport">>)

\* sigint_collector.py main: scan_fn
wifi_scan_fn(sys, w) ==
    IF sys = "Windows" THEN wifi_scan_wifi_windows(w.netsh)
    ELSE IF sys = "Darwin" THEN wifi_scan_wifi_macos(w.airport)
    ELSE wifi_scan_wifi_linux(w.nmcli, w.iwlist)

-----------------------------------------------------------------------------
(* Push pipeline.                                                          *)
(* What requests.post does is a record [kind, status, valid_json, json,    *)
(* text]: kind "http" (a response with that status, text its body, json    *)
(* the body parsed when valid_json), "ConnectionError", "Timeout" or       *)
(* "Exception" (anything else raised by the call).                         *)

\* PushOutcome with the status test widened from == 200 to < 500: a 401 or 403
\* answer that carries a JSON body is returned as a success
PushOutcome_lenient(resp, invalid_key, cannot_connect, timed_out) ==
    IF resp.kind = "http"
    THEN (IF resp.status < 500 THEN [ok |-> TRUE, result |-> resp.json]
          ELSE [ok |-> FALSE,
                result |-> [error |-> "HTTP " \o ToString(resp.status) \o ": " \o Prefix(resp.text, 200)]])
    ELSE IF resp.kind = "ConnectionError" THEN [ok |-> FALSE, result |-> [error |-> cannot_connect]]
    ELSE IF resp.kind = "Timeout" THEN [ok |-> FALSE, result |-> [error |-> timed_out]]
    ELSE [ok |-> FALSE, result |-> [error |-> "Exception"]]

\* the body of push_to_server, the same in the three collectors up to the wording
\* of three messages: the pair (ok, result) it returns. resp.json() of a body that
\* is not JSON raises, and except Exception turns that into a failure.
PushOutcome(resp, invalid_key, cannot_connect, timed_out) ==
    IF resp.kind = "http"
    THEN (IF resp.status = 200
          THEN (IF resp.valid_json THEN [ok |-> TRUE, result |-> resp.json]
                ELSE [ok |-> FALSE, result |-> [error |-> "JSONDecodeError"]])
          ELSE IF resp.status = 401 THEN [ok |-> FALSE, result |-> [error |-> invalid_key]]
          ELSE IF resp.status = 403 THEN [ok |-> FALSE, result |-> [error |-> "API key is disabled."]]
          ELSE [ok |-> FALSE,
                result |-> [error |-> "HTTP " \o ToString(resp.status) \o ": " \o Prefix(resp.text, 200)]])
    ELSE IF resp.kind = "ConnectionError" THEN [ok |-> FALSE, result |-> [error |-> cannot_connect]]
    ELSE IF resp.kind = "Timeout" THEN [ok |-> FALSE, result |-> [error |-> timed_out]]
    ELSE [ok |-> FALSE, result |-> [error |-> "Exception"]]

\* sigint_multi_collector.py
push_to_server(devices, resp, app_url) ==
    PushOutcome(resp, "Invalid API key.", "Cannot connect to " \o app_url \o ".", "Timeout.")

\* sigint_bluetooth_collector.py
bt_push_to_server(devices, resp, app_url) ==
    PushOutcome(resp, "Invalid API key.", "Cannot connect to " \o app_url \o ".",
                "Request timed out.")

\* sigint_collector.py
wifi_push_to_server(devices, resp, app_url) ==
    PushOutcome(resp, "Invalid API key. Check your SIGINT_API_KEY.",
                "Cannot connect to " \o app_url \o ". Check your SIGINT_APP_URL.",
                "Request timed out.")

\* the push_to_server of the collector that runs
Push(v, devices, resp, app_url) ==
    IF v = "bt" THEN bt_push_to_server(devices, resp, app_url)
    ELSE IF v = "wifi" THEN wifi_push_to_server(devices, resp, app_url)
    ELSE push_to_server(devices, resp, app_url)

\* Accumulate counting the records submitted instead of the records the server
\* reports: total_pushed += len(devices)
Accumulate_submitted(total, r, devices) ==
    IF r.ok THEN total + Len(devices) ELSE total

\* main, after a push in the loop: if ok: total_pushed += result.get("processed", 0)
Accumulate(total, r, devices) ==
    IF r.ok THEN total + Get(r.result, "processed", 0) ELSE total

-----------------------------------------------------------------------------
(* The environment: what the tools, the libraries and the server may do *)

Fail(kind) == [kind |-> kind, rc |-> 0, lines |-> <<>>]

Ran(rc, lines) == [kind |-> "ok", rc |-> rc, lines |-> lines]

ToolFailures == {Fail("FileNotFoundError"), Fail("TimeoutExpired"), Fail("OtherError")}

\* outcomes of the tools and libraries in a run of the controller
CtlHcitool ==
    ToolFailures \cup
    { Ran(0, <<>>),
      Ran(0, <<[mac |-> MAC_JBL, name |-> "JBL Flip 5"]>>),
      Ran(0, <<[mac |-> MAC_ZERO, name |-> ""]>>) }

CtlLescan ==
    { Fail("FileNotFoundError"), Fail("OtherError"),
      Ran(0, <<[mac |-> MAC_JBL, name |-> "(unknown)"]>>),
      Ran(0, <<[mac |-> MAC_TILE, name |-> "Tile"]>>) }

CtlBluetoothctl ==
    ToolFailures \cup
    { Ran(0, <<>>),
      Ran(0, <<[mac |-> mac_jbl, name |-> ""]>>),
      Ran(0, <<[mac |-> MAC_APPLE, name |-> "Kitchen Speaker"]>>) }

CtlBleak ==
    { [kind |-> "ImportError", found |-> <<>>],
      [kind |-> "Exception", found |-> <<>>],
      [kind |-> "ok", found |-> <<>>],
      [kind |-> "ok", found |-> <<[address |-> UUID_ADDR, name |-> "", rssi |-> None]>>],
      [kind |-> "ok", found |-> <<[address |-> MAC_ZERO, name |-> "Galaxy Watch", rssi |-> <<-60>>]>>] }

CtlNmcli ==
    ToolFailures \cup
    { Ran(10, <<>>),
      Ran(0, <<>>),
      Ran(0, << <<"C4", "E9", "84", "00", "00", "01", "HomeNet", "75", "6", "WPA2", "2437 MHz">> >>),
      Ran(0, << <<"00", "00", "00", "00", "00", "00", "", "x", "", "", "">> >>) }

CtlIwlist == {Fail("FileNotFoundError"), Fail("TimeoutExpired"), Ran(0, <<>>)}

CtlNetsh ==
    ToolFailures \cup
    { Ran(1, <<>>),
      Ran(0, << [tag |-> "SSID", matched |-> TRUE, val |-> "HomeNet"],
                [tag |-> "Authentication", matched |-> TRUE, val |-> "WPA2-Personal"],
                [tag |-> "BSSID", matched |-> TRUE, val |-> "c4:e9:84:00:00:01"],
                [tag |-> "Signal", matched |-> TRUE, val |-> 75],
                [tag |-> "Radio type", matched |-> TRUE, val |-> "802.11ac"],
                [tag |-> "Channel", matched |-> TRUE, val |-> 36] >>),
      Ran(0, << [tag |-> "SSID", matched |-> TRUE, val |-> ""],
                [tag |-> "BSSID", matched |-> TRUE, val |-> MAC_ZERO],
                [tag |-> "Signal", matched |-> TRUE, val |-> 40] >>) }

CtlCoreWLAN ==
    { [kind |-> "ImportError", networks |-> <<>>],
      [kind |-> "no interface", networks |-> <<>>],
      [kind |-> "Exception", networks |-> <<>>],
      [kind |-> "ok", networks |-> <<[bssid |-> "ac:bc:32:11:22:33", ssid |-> "", rssi |-> -55,
                                      channel |-> None]>>] }

CtlAirport ==
    { [kind |-> "absent", rc |-> 0, lines |-> <<>>], Fail("TimeoutExpired"), Fail("OtherError"),
      Ran(1, <<>>),
      Ran(0, <<>>),
      Ran(0, <<[ssid |-> "HomeNet", bssid |-> "c4:e9:84:00:00:01", rssi |-> -61, channel |-> 11,
                auth |-> "WPA2(PSK/AES/AES)"]>>) }

\* the Wi-Fi tools a platform uses, one outcome each
CtlWifiEnv(sys) ==
    IF sys = "Windows"
    THEN [netsh : CtlNetsh, corewlan : {[kind |-> "ImportError", networks |-> <<>>]},
          airport : {Fail("FileNotFoundError")}, nmcli : {Fail("FileNotFoundError")},
          iwlist : {Fail("FileNotFoundError")}]
    ELSE IF sys = "Darwin"
    THEN [netsh : {Fail("FileNotFoundError")}, corewlan : CtlCoreWLAN, airport : CtlAirport,
          nmcli : {Fail("FileNotFoundError")}, iwlist : {Fail("FileNotFoundError")}]
    ELSE [netsh : {Fail("FileNotFoundError")}, corewlan : {[kind |-> "ImportError", networks |-> <<>>]},
          airport : {Fail("FileNotFoundError")}, nmcli : CtlNmcli, iwlist : CtlIwlist]

\* the Bluetooth tools a platform uses, one outcome each
CtlBtEnv(sys) ==
    IF sys = "Linux"
    THEN [hcitool : CtlHcitool, lescan : CtlLescan, bluetoothctl : CtlBluetoothctl, bleak : CtlBleak]
    ELSE [hcitool : {Fail("FileNotFoundError")}, lescan : {Fail("FileNotFoundError")},
          bluetoothctl : {Fail("FileNotFoundError")}, bleak : CtlBleak]

Answer(kind, status, valid_json, json, text) ==
    [kind |-> kind, status |-> status, valid_json |-> valid_json, json |-> json, text |-> text]

NoJson == [created |-> 0, updated |-> 0]

\* what the server, or the network, answers to one request
Responses ==
    { Answer("http", 200, TRUE, [created |-> 1, updated |-> 1, processed |-> 2], "{...}"),
      Answer("http", 200, TRUE, [created |-> 0, updated |-> 0], "{...}"),
      Answer("http", 200, FALSE, NoJson, "<html>"),
      Answer("http", 401, FALSE, NoJson, "Unauthorized"),
      Answer("http", 403, FALSE, NoJson, "Forbidden"),
      Answer("http", 500, FALSE, NoJson, "Internal Server Error"),
      Answer("ConnectionError", 0, FALSE, NoJson, ""),
      Answer("Timeout", 0, FALSE, NoJson, ""),
      Answer("Exception", 0, FALSE, NoJson, "") }

\* the `processed` value the server reported in its answer, 0 when it reported none
Reported(resp) ==
    IF resp.kind = "http" /\ resp.status = 200 /\ resp.valid_json /\ "processed" \in DOMAIN resp.json
    THEN resp.json.processed
    ELSE 0

-----------------------------------------------------------------------------
(* The controller: main() of the three collectors.                         *)
(* pc: "start" (arguments parsed), "probe" (the connection test),          *)
(* "iter" (top of the while loop), "wifi" and "bt" (a backend scan is      *)
(* about to run or runs), "push" (the batch is built; the push is about    *)
(* to run or runs), "sleep" (in time.sleep), "terminated" (main returned), *)
(* "exit_config" and "exit_platform" (sys.exit(1)), "crashed" (an          *)
(* exception left main: exc names it). The loop is explored for MaxScans   *)
(* iterations.                                                             *)

MaxScans == 2

Variants == {"multi", "bt", "wifi"}

Systems == {"Linux", "Darwin", "Windows", "FreeBSD"}

ArgKeys == {"", "YOUR_API_KEY_HERE", "k3y"}

ArgUrls == {"https://your-app.replit.app", "https://sigint.example"}

ArgCoords == {<<None, None>>}

scan_wifi_enabled == ~bt_only

scan_bt_enabled == ~wifi_only

Init ==
    /\ variant \in Variants
    /\ system \in Systems
    /\ once \in BOOLEAN
    /\ wifi_only \in (IF variant = "multi" THEN BOOLEAN ELSE {FALSE})
    /\ bt_only \in (IF variant = "multi" THEN BOOLEAN ELSE {FALSE})
    /\ API_KEY \in ArgKeys
    /\ APP_URL \in ArgUrls
    /\ \E c \in ArgCoords : LATITUDE = c[1] /\ LONGITUDE = c[2]
    /\ pc = "start"
    /\ scan_count = 0
    /\ total_pushed = 0
    /\ wifi_nets = <<>>
    /\ bt_devs_raw = <<>>
    /\ all_devices = <<>>
    /\ ok = FALSE
    /\ result = NoJson
    /\ http = <<>>
    /\ server_processed = 0
    /\ calls = <<>>
    /\ summary = None
    /\ exc = ""
    /\ env = <<>>
    /\ ret = <<>>
    /\ worker = "none"

config == <<variant, system, once, wifi_only, bt_only, API_KEY, APP_URL, LATITUDE, LONGITUDE>>

orch == <<env, ret, worker>>

\* the checks between the argument parsing and the connection test
Startup ==
    /\ pc = "start"
    /\ pc' = IF API_KEY = "YOUR_API_KEY_HERE" \/ API_KEY = "" THEN "exit_config"
             ELSE IF Contains(APP_URL, "your-app") THEN "exit_config"
             ELSE IF variant = "wifi" /\ system \notin {"Windows", "Darwin", "Linux"}
                  THEN "exit_platform"
                  ELSE "probe"
    /\ UNCHANGED <<config, orch, scan_count, total_pushed, wifi_nets, bt_devs_raw, all_devices,
                   ok, result, http, server_processed, calls, summary, exc>>

\* Probe with a failed connection test treated as fatal: sys.exit(1) when not ok
Probe_fatal ==
    /\ pc = "probe"
    /\ \E resp \in Responses :
          LET r == Push(variant, <<>>, resp, APP_URL)
          IN  /\ ok' = r.ok
              /\ result' = r.result
              /\ http' = <<[devices |-> <<>>, resp |-> resp]>>
              /\ pc' = IF r.ok THEN "iter" ELSE "exit_config"
    /\ scan_count' = 0
    /\ total_pushed' = 0
    /\ UNCHANGED <<config, orch, wifi_nets, bt_devs_raw, all_devices, server_processed, calls,
                   summary, exc>>

\* ok, result = push_to_server([]); then scan_count = 0, total_pushed = 0
Probe ==
    /\ pc = "probe"
    /\ \E resp \in Responses :
          LET r == Push(variant, <<>>, resp, APP_URL)
          IN  /\ ok' = r.ok
              /\ result' = r.result
              /\ http' = <<[devices |-> <<>>, resp |-> resp]>>
    /\ scan_count' = 0
    /\ total_pushed' = 0
    /\ pc' = "iter"
    /\ UNCHANGED <<config, orch, wifi_nets, bt_devs_raw, all_devices, server_processed, calls,
                   summary, exc>>

\* BeginScan with `all_devices = []` before the loop instead of inside it: the
\* records of the previous iteration stay in the batch
BeginScan_kept ==
    /\ pc = "iter"
    /\ scan_count < MaxScans
    /\ scan_count' = scan_count + 1
    /\ all_devices' = all_devices
    /\ wifi_nets' = <<>>
    /\ bt_devs_raw' = <<>>
    /\ ok' = FALSE
    /\ result' = NoJson
    /\ http' = <<>>
    /\ calls' = <<>>
    /\ pc' = IF variant = "bt" THEN "bt"
             ELSE IF variant = "wifi" THEN "wifi"
             ELSE IF scan_wifi_enabled THEN "wifi"
             ELSE IF scan_bt_enabled THEN "bt"
             ELSE "push"
    /\ UNCHANGED <<config, orch, total_pushed, server_processed, summary, exc>>

\* while True: scan_count += 1; all_devices = []
\* The values the previous iteration left in wifi_nets, bt_devs_raw, devices, ok
\* and result are assigned anew before they are read again: they are cleared here.
BeginScan ==
    /\ pc = "iter"
    /\ scan_count < MaxScans
    /\ scan_count' = scan_count + 1
    /\ all_devices' = <<>>
    /\ wifi_nets' = <<>>
    /\ bt_devs_raw' = <<>>
    /\ ok' = FALSE
    /\ result' = NoJson
    /\ http' = <<>>
    /\ calls' = <<>>
    /\ pc' = IF variant = "bt" THEN "bt"
             ELSE IF variant = "wifi" THEN "wifi"
             ELSE IF scan_wifi_enabled THEN "wifi"
             ELSE IF scan_bt_enabled THEN "bt"
             ELSE "push"
    /\ UNCHANGED <<config, orch, total_pushed, server_processed, summary, exc>>

\* MultiScanWifiWith going straight on to the push: the Bluetooth scan of the
\* iteration is left out
MultiScanWifiWith_last(w) ==
    /\ pc = "wifi"
    /\ variant = "multi"
    /\ LET r == scan_wifi(system, w)
       IN  /\ calls' = calls \o r.calls
           /\ IF r.st = "raise"
              THEN /\ pc' = "crashed"
                   /\ exc' = r.val[1]
                   /\ UNCHANGED <<wifi_nets, all_devices>>
              ELSE /\ wifi_nets' = r.val
                   /\ all_devices' = all_devices \o format_wifi_devices(r.val, LATITUDE, LONGITUDE)
                   /\ pc' = "push"
                   /\ UNCHANGED exc
    /\ UNCHANGED <<config, orch, scan_count, total_pushed, bt_devs_raw, ok, result, http,
                   server_processed, summary>>

\* multi: if scan_wifi_enabled: wifi_nets = scan_wifi(); all_devices.extend(format_wifi_devices(wifi_nets))
MultiScanWifiWith(w) ==
    /\ pc = "wifi"
    /\ variant = "multi"
    /\ LET r == scan_wifi(system, w)
       IN  /\ calls' = calls \o r.calls
           /\ IF r.st = "raise"
              THEN /\ pc' = "crashed"
                   /\ exc' = r.val[1]
                   /\ UNCHANGED <<wifi_nets, all_devices>>
              ELSE /\ wifi_nets' = r.val
                   /\ all_devices' = all_devices \o format_wifi_devices(r.val, LATITUDE, LONGITUDE)
                   /\ pc' = IF scan_bt_enabled THEN "bt" ELSE "push"
                   /\ UNCHANGED exc
    /\ UNCHANGED <<config, orch, scan_count, total_pushed, bt_devs_raw, ok, result, http,
                   server_processed, summary>>

\* the step with whatever the tools of the platform do
MultiScanWifi == \E w \in CtlWifiEnv(system) : MultiScanWifiWith(w)

\* multi: if scan_bt_enabled: bt_devs_raw = scan_bluetooth(); all_devices.extend(format_bt_devices(bt_devs_raw))
MultiScanBtWith(e) ==
    /\ pc = "bt"
    /\ variant = "multi"
    /\ LET r == scan_bluetooth(system, e.hcitool, e.bluetoothctl, e.bleak)
       IN  /\ calls' = calls \o r.calls
           /\ IF r.st = "raise"
              THEN /\ pc' = "crashed"
                   /\ exc' = r.val[1]
                   /\ UNCHANGED <<bt_devs_raw, all_devices>>
              ELSE /\ bt_devs_raw' = r.val
                   /\ all_devices' = all_devices \o format_bt_devices(r.val, LATITUDE, LONGITUDE)
                   /\ pc' = "push"
                   /\ UNCHANGED exc
    /\ UNCHANGED <<config, orch, scan_count, total_pushed, wifi_nets, ok, result, http,
                   server_processed, summary>>

\* the step with whatever the tools of the platform do
MultiScanBt == \E e \in CtlBtEnv(system) : MultiScanBtWith(e)

\* PushAndCount with a second attempt in the same iteration after a failed push
PushAndCount_retry(devices) ==
    /\ \E resp \in Responses, again \in Responses :
          LET first == Push(variant, devices, resp, APP_URL)
              r == IF first.ok THEN first ELSE Push(variant, devices, again, APP_URL)
              sent == IF first.ok
                      THEN <<[devices |-> devices, resp |-> resp]>>
                      ELSE <<[devices |-> devices, resp |-> resp],
                             [devices |-> devices, resp |-> again]>>
          IN  /\ ok' = r.ok
              /\ result' = r.result
              /\ http' = http \o sent
              /\ server_processed' = server_processed + Reported(resp)
                                        + (IF first.ok THEN 0 ELSE Reported(again))
              /\ total_pushed' = Accumulate(total_pushed, r, devices)
    /\ pc' = IF once THEN "terminated" ELSE "sleep"

\* PushAndCount with a failed push leaving the loop: break when not ok
PushAndCount_fatal(devices) ==
    /\ \E resp \in Responses :
          LET r == Push(variant, devices, resp, APP_URL)
          IN  /\ ok' = r.ok
              /\ result' = r.result
              /\ http' = Append(http, [devices |-> devices, resp |-> resp])
              /\ server_processed' = server_processed + Reported(resp)
              /\ total_pushed' = Accumulate(total_pushed, r, devices)
              /\ pc' = IF once \/ ~r.ok THEN "terminated" ELSE "sleep"

\* one call of push_to_server(devices) in the loop and the statements after it,
\* up to the break or the sleep
PushAndCount(devices) ==
    /\ \E resp \in Responses :
          LET r == Push(variant, devices, resp, APP_URL)
          IN  /\ ok' = r.ok
              /\ result' = r.result
              /\ http' = Append(http, [devices |-> devices, resp |-> resp])
              /\ server_processed' = server_processed + Reported(resp)
              /\ total_pushed' = Accumulate(total_pushed, r, devices)
    /\ pc' = IF once THEN "terminated" ELSE "sleep"

\* no push in this iteration: the else branch, then the break or the sleep
NoPush ==
    /\ pc' = IF once THEN "terminated" ELSE "sleep"
    /\ UNCHANGED <<ok, result, http, server_processed, total_pushed>>

\* multi: if all_devices: push_to_server(all_devices) ...; if args.once: break; time.sleep
MultiPush ==
    /\ pc = "push"
    /\ variant = "multi"
    /\ IF all_devices # <<>> THEN PushAndCount(all_devices) ELSE NoPush
    /\ UNCHANGED <<config, orch, scan_count, wifi_nets, bt_devs_raw, all_devices, calls, summary, exc>>

\* bt: bt_devices = scan_bluetooth()
BtScanWith(e) ==
    /\ pc = "bt"
    /\ variant = "bt"
    /\ LET r == bt_scan_bluetooth(system, e.hcitool, e.lescan, e.bluetoothctl, e.bleak)
       IN  /\ calls' = calls \o r.calls
           /\ IF r.st = "raise"
              THEN /\ pc' = "crashed"
                   /\ exc' = r.val[1]
                   /\ UNCHANGED bt_devs_raw
              ELSE /\ bt_devs_raw' = r.val
                   /\ pc' = "push"
                   /\ UNCHANGED exc
    /\ UNCHANGED <<config, orch, scan_count, total_pushed, wifi_nets, all_devices, ok, result,
                   http, server_processed, summary>>

\* the step with whatever the tools of the platform do
BtScan == \E e \in CtlBtEnv(system) : BtScanWith(e)

\* bt: if bt_devices: devices = format_devices(bt_devices); push_to_server(devices) ...
BtPush ==
    /\ pc = "push"
    /\ variant = "bt"
    /\ IF bt_devs_raw # <<>>
       THEN LET devices == bt_format_devices(bt_devs_raw, LATITUDE, LONGITUDE)
            IN  /\ all_devices' = devices
                /\ PushAndCount(devices)
       ELSE /\ NoPush
            /\ UNCHANGED all_devices
    /\ UNCHANGED <<config, orch, scan_count, wifi_nets, bt_devs_raw, calls, summary, exc>>

\* wifi: networks = scan_fn()
WifiScanWith(w) ==
    /\ pc = "wifi"
    /\ variant = "wifi"
    /\ LET r == wifi_scan_fn(system, w)
       IN  /\ calls' = calls \o r.calls
           /\ IF r.st = "raise"
              THEN /\ pc' = "crashed"
                   /\ exc' = r.val[1]
                   /\ UNCHANGED wifi_nets
              ELSE /\ wifi_nets' = r.val
                   /\ pc' = "push"
                   /\ UNCHANGED exc
    /\ UNCHANGED <<config, orch, scan_count, total_pushed, bt_devs_raw, all_devices, ok, result,
                   http, server_processed, summary>>

\* the step with whatever the tools of the platform do
WifiScan == \E w \in CtlWifiEnv(system) : WifiScanWith(w)

\* wifi: if networks: devices = format_devices(networks); push_to_server(devices) ...
WifiPush ==
    /\ pc = "push"
    /\ variant = "wifi"
    /\ IF wifi_nets # <<>>
       THEN LET devices == wifi_format_devices(wifi_nets, LATITUDE, LONGITUDE)
            IN  /\ all_devices' = devices
                /\ PushAndCount(devices)
       ELSE /\ NoPush
            /\ UNCHANGED all_devices
    /\ UNCHANGED <<config, orch, scan_count, wifi_nets, bt_devs_raw, calls, summary, exc>>

\* Wake with the loop resumed after it was left: the handler of the interrupt,
\* or the --once break, placed so that the while loop goes on
Wake_resumed ==
    /\ pc \in {"sleep", "terminated"}
    /\ pc' = "iter"
    /\ UNCHANGED <<config, orch, scan_count, total_pushed, wifi_nets, bt_devs_raw, all_devices,
                   ok, result, http, server_processed, calls, summary, exc>>

\* time.sleep(args.interval) returns
Wake ==
    /\ pc = "sleep"
    /\ pc' = "iter"
    /\ UNCHANGED <<config, orch, scan_count, total_pushed, wifi_nets, bt_devs_raw, all_devices,
                   ok, result, http, server_processed, calls, summary, exc>>

\* where a KeyboardInterrupt is raised inside the try block of main
InTry == pc \in {"iter", "wifi", "bt", "push", "sleep"}

\* Ctrl+C: inside the try block the except clause prints the summary and main
\* returns; during the connection test nothing catches the KeyboardInterrupt
Interrupt ==
    /\ pc \in {"probe", "iter", "wifi", "bt", "push", "sleep"}
    /\ IF InTry
       THEN /\ pc' = "terminated"
            /\ summary' = <<scan_count, total_pushed>>
       ELSE /\ pc' = "crashed"
            /\ UNCHANGED summary
    /\ exc' = "KeyboardInterrupt"
    /\ UNCHANGED <<config, orch, scan_count, total_pushed, wifi_nets, bt_devs_raw, all_devices,
                   ok, result, http, server_processed, calls>>

Next ==
    \/ Startup
    \/ Probe
    \/ BeginScan
    \/ MultiScanWifi
    \/ MultiScanBt
    \/ MultiPush
    \/ BtScan
    \/ BtPush
    \/ WifiScan
    \/ WifiPush
    \/ Wake
    \/ Interrupt

Spec == Init /\ [][Next]_vars

-----------------------------------------------------------------------------
(* The orchestrators on their own: one call of scan_wifi_macos or of       *)
(* scan_bluetooth with the outcomes of the adapters drawn from bounded     *)
(* sets. env is [fn, hcitool, lescan, bluetoothctl, bleak, corewlan,       *)
(* airport]; ret is what the call returned.                                *)

MaxLines == 2

\* the sequences of at most n elements of S
SeqsUpTo(S, n) == UNION {[1..k -> S] : k \in 0..n}

\* no two lines of one tool's output carry the same address
Distinct(lines) ==
    \A i, j \in 1..Len(lines) : i # j => upper(lines[i].mac) # upper(lines[j].mac)

OrchLines ==
    { [mac |-> MAC_JBL, name |-> "JBL Flip 5"],
      [mac |-> mac_jbl, name |-> ""],
      [mac |-> MAC_APPLE, name |-> "Kitchen Speaker"] }

OrchLeLines ==
    { [mac |-> mac_jbl, name |-> "JBL LE"],
      [mac |-> MAC_TILE, name |-> "(unknown)"] }

\* hcitool scan prints the inquiry result, where an address occurs once
OrchHcitool ==
    ToolFailures \cup {Ran(0, l) : l \in {x \in SeqsUpTo(OrchLines, MaxLines) : Distinct(x)}}

\* hcitool lescan prints one line per advertisement: an address may repeat
OrchLescan == ToolFailures \cup {Ran(0, l) : l \in SeqsUpTo(OrchLeLines, MaxLines)}

OrchBluetoothctl == ToolFailures \cup {Ran(0, l) : l \in SeqsUpTo(OrchLines, MaxLines)}

OrchFound ==
    { [address |-> UUID_ADDR, name |-> "", rssi |-> None],
      [address |-> "88:c6:26:00:00:07", name |-> "Tile", rssi |-> <<-60>>] }

OrchBleak ==
    { [kind |-> "ImportError", found |-> <<>>], [kind |-> "Exception", found |-> <<>>] }
    \cup {[kind |-> "ok", found |-> f] : f \in SeqsUpTo(OrchFound, MaxLines)}

OrchNetworks ==
    { [bssid |-> "ac:bc:32:11:22:33", ssid |-> "", rssi |-> -55, channel |-> None],
      [bssid |-> "", ssid |-> "Lab", rssi |-> -70, channel |-> <<6>>] }

OrchCoreWLAN ==
    { [kind |-> "ImportError", networks |-> <<>>], [kind |-> "no interface", networks |-> <<>>],
      [kind |-> "scan error", networks |-> <<>>], [kind |-> "Exception", networks |-> <<>>] }
    \cup {[kind |-> "ok", networks |-> n] : n \in SeqsUpTo(OrchNetworks, MaxLines)}

OrchAirportLines ==
    { [ssid |-> "HomeNet", bssid |-> "c4:e9:84:00:00:01", rssi |-> -61, channel |-> 11,
       auth |-> "WPA2(PSK/AES/AES)"],
      [ssid |-> " Cafe", bssid |-> MAC_ZERO, rssi |-> -80, channel |-> 149, auth |-> "NONE"] }

OrchAirport ==
    {[kind |-> "absent", rc |-> 0, lines |-> <<>>], Ran(1, <<>>)} \cup ToolFailures
    \cup {Ran(0, l) : l \in SeqsUpTo(OrchAirportLines, MaxLines)}

NotInstalled == Fail("FileNotFoundError")

\* a native tool that lists nothing: it is missing, fails or prints no device
OrchQuiet == ToolFailures \cup {Ran(0, <<>>)}

OrchBleakFew ==
    { [kind |-> "ImportError", found |-> <<>>],
      [kind |-> "ok", found |-> <<[address |-> UUID_ADDR, name |-> "", rssi |-> None]>>] }

NoCoreWLAN == [kind |-> "ImportError", networks |-> <<>>]

\* the calls of an orchestrator the specification explores: scan_wifi_macos with
\* every outcome of its two adapters; the two scan_bluetooth on Linux with every
\* output of the native tools, and with every answer of bleak when the native
\* tools list nothing; the two scan_bluetooth elsewhere
OrchEnvs ==
    [fn : {"scan_wifi_macos"}, sys : {"Darwin"}, hcitool : {NotInstalled}, lescan : {NotInstalled},
     bluetoothctl : {NotInstalled}, bleak : {[kind |-> "ImportError", found |-> <<>>]},
     corewlan : OrchCoreWLAN, airport : OrchAirport]
    \cup
    [fn : {"scan_bluetooth"}, sys : {"Linux"}, hcitool : OrchHcitool, lescan : {NotInstalled},
     bluetoothctl : OrchBluetoothctl, bleak : OrchBleakFew,
     corewlan : {NoCoreWLAN}, airport : {NotInstalled}]
    \cup
    [fn : {"scan_bluetooth"}, sys : {"Linux"}, hcitool : OrchQuiet, lescan : {NotInstalled},
     bluetoothctl : OrchQuiet, bleak : OrchBleak,
     corewlan : {NoCoreWLAN}, airport : {NotInstalled}]
    \cup
    [fn : {"bt_scan_bluetooth"}, sys : {"Linux"}, hcitool : OrchHcitool, lescan : OrchLescan,
     bluetoothctl : OrchBluetoothctl, bleak : OrchBleakFew,
     corewlan : {NoCoreWLAN}, airport : {NotInstalled}]
    \cup
    [fn : {"bt_scan_bluetooth"}, sys : {"Linux"}, hcitool : OrchQuiet, lescan : OrchQuiet,
     bluetoothctl : OrchQuiet, bleak : OrchBleak,
     corewlan : {NoCoreWLAN}, airport : {NotInstalled}]
    \cup
    [fn : {"scan_bluetooth", "bt_scan_bluetooth"}, sys : {"Darwin", "Windows"},
     hcitool : {NotInstalled}, lescan : {NotInstalled}, bluetoothctl : {NotInstalled},
     bleak : OrchBleak, corewlan : {NoCoreWLAN}, airport : {NotInstalled}]

InitOrch ==
    /\ env \in OrchEnvs
    /\ system = env.sys
    /\ variant = IF env.fn = "bt_scan_bluetooth" THEN "bt" ELSE "multi"
    /\ once = TRUE
    /\ wifi_only = FALSE
    /\ bt_only = FALSE
    /\ API_KEY = "k3y"
    /\ APP_URL = "https://sigint.example"
    /\ LATITUDE = None
    /\ LONGITUDE = None
    /\ pc = "call"
    /\ scan_count = 0
    /\ total_pushed = 0
    /\ wifi_nets = <<>>
    /\ bt_devs_raw = <<>>
    /\ all_devices = <<>>
    /\ ok = FALSE
    /\ result = NoJson
    /\ http = <<>>
    /\ server_processed = 0
    /\ calls = <<>>
    /\ summary = None
    /\ exc = ""
    /\ ret = <<>>
    /\ worker = "none"

controller == <<scan_count, total_pushed, wifi_nets, bt_devs_raw, all_devices, ok, result, http,
                server_processed, calls, summary, exc>>

\* networks = scan_wifi_macos()
CallScanWifiMacos ==
    /\ pc = "call"
    /\ env.fn = "scan_wifi_macos"
    /\ ret' = scan_wifi_macos(env.corewlan, env.airport)
    /\ pc' = "returned"
    /\ UNCHANGED <<config, controller, env, worker>>

\* sigint_multi_collector.py: bt_devs_raw = scan_bluetooth()
CallScanBluetooth ==
    /\ pc = "call"
    /\ env.fn = "scan_bluetooth"
    /\ ret' = scan_bluetooth(system, env.hcitool, env.bluetoothctl, env.bleak)
    /\ pc' = "returned"
    /\ UNCHANGED <<config, controller, env, worker>>

\* sigint_bluetooth_collector.py: bt_devices = scan_bluetooth()
CallBtScanBluetooth ==
    /\ pc = "call"
    /\ env.fn = "bt_scan_bluetooth"
    /\ ret' = bt_scan_bluetooth(system, env.hcitool, env.lescan, env.bluetoothctl, env.bleak)
    /\ pc' = "returned"
    /\ UNCHANGED <<config, controller, env, worker>>

NextOrch ==
    \/ CallScanWifiMacos
    \/ CallScanBluetooth
    \/ CallBtScanBluetooth

SpecOrch == InitOrch /\ [][NextOrch]_vars

-----------------------------------------------------------------------------
(* One call of scan_bt_bleak (sigint_multi_collector.py) or                 *)
(* scan_bluetooth_bleak (sigint_bluetooth_collector.py), with the thread    *)
(* that runs asyncio.run(do_scan()) when, on macOS, an event loop is        *)
(* already running in the caller. pc: "call", "result" (the caller waits in *)
(* future.result(timeout=15)), "exit_with" (the return value or the         *)
(* exception is known and the with block is being left), "returned".        *)
(* main() of the collectors is not a coroutine, so the calls it makes find  *)
(* no running loop; the thread is used when the function is called from     *)
(* asynchronous code.                                                       *)

BleakEnvs ==
    [fn : {"scan_bt_bleak", "bt_scan_bluetooth_bleak"}, sys : Systems,
     running_loop : BOOLEAN, bleak : OrchBleak]

InitBleak ==
    /\ env \in BleakEnvs
    /\ system = env.sys
    /\ variant = IF env.fn = "bt_scan_bluetooth_bleak" THEN "bt" ELSE "multi"
    /\ once = TRUE
    /\ wifi_only = FALSE
    /\ bt_only = FALSE
    /\ API_KEY = "k3y"
    /\ APP_URL = "https://sigint.example"
    /\ LATITUDE = None
    /\ LONGITUDE = None
    /\ pc = "call"
    /\ scan_count = 1
    /\ total_pushed = 0
    /\ wifi_nets = <<>>
    /\ bt_devs_raw = <<>>
    /\ all_devices = <<>>
    /\ ok = FALSE
    /\ result = NoJson
    /\ http = <<>>
    /\ server_processed = 0
    /\ calls = <<>>
    /\ summary = None
    /\ exc = ""
    /\ ret = <<>>
    /\ worker = "none"

\* what the function returns once do_scan has ended: its list, or [] after
\* `except Exception`
BleakOutcome ==
    IF env.fn = "scan_bt_bleak" THEN scan_bt_bleak(env.bleak)
    ELSE bt_scan_bluetooth_bleak(env.bleak)

\* the function up to pool.submit(asyncio.run, do_scan()), or the whole of it
\* when bleak is missing or no thread is used
CallBleak ==
    /\ pc = "call"
    /\ IF env.bleak.kind # "ImportError" /\ system = "Darwin" /\ env.running_loop
       THEN /\ worker' = "running"
            /\ pc' = "result"
            /\ UNCHANGED ret
       ELSE /\ ret' = BleakOutcome
            /\ pc' = "returned"
            /\ UNCHANGED worker
    /\ UNCHANGED <<config, controller, env>>

\* the thread: asyncio.run(do_scan()) ends, with the list or with an exception,
\* and the future is set
WorkerRun ==
    /\ worker = "running"
    /\ worker' = "finished"
    /\ UNCHANGED <<config, controller, env, ret, pc>>

\* future.result(timeout=15) returns the list, or raises what do_scan raised
ResultReady ==
    /\ pc = "result"
    /\ worker = "finished"
    /\ ret' = BleakOutcome
    /\ pc' = "exit_with"
    /\ UNCHANGED <<config, controller, env, worker>>

\* the 15 s pass first: future.result raises TimeoutError, which
\* `except Exception` turns into return []
ResultTimeout ==
    /\ pc = "result"
    /\ worker = "running"
    /\ ret' = Ret("ok", <<>>, <<"bleak">>)
    /\ pc' = "exit_with"
    /\ UNCHANGED <<config, controller, env, worker>>

\* PoolShutdown without the wait: pool.shutdown(wait=False) in place of the
\* with block
PoolShutdown_nowait ==
    /\ pc = "exit_with"
    /\ pc' = "returned"
    /\ UNCHANGED <<config, controller, env, ret, worker>>

\* the with block is left, by the return or by the exception:
\* ThreadPoolExecutor.__exit__ is shutdown(wait=True), which joins the thread
PoolShutdown ==
    /\ pc = "exit_with"
    /\ worker = "finished"
    /\ worker' = "joined"
    /\ pc' = "returned"
    /\ UNCHANGED <<config, controller, env, ret>>

NextBleak ==
    \/ CallBleak
    \/ WorkerRun
    \/ ResultReady
    \/ ResultTimeout
    \/ PoolShutdown

SpecBleak == InitBleak /\ [][NextBleak]_vars

-----------------------------------------------------------------------------
(* Normalization and enrichment of the sightings of one scan: main applies  *)
(* --lat and --lng to the globals, then a format function turns the raw     *)
(* sightings into records. pc: "args", "format", "returned".                *)

MaxSightings == 2

\* an address with '-' for delimiter
MAC_DASHED == "C4-E9-84-00-00-01"

\* an address as nmcli -t prints it, each colon escaped
MAC_ESCAPED == "C4\\:E9\\:84\\:00\\:00\\:01"

\* more than 17 characters after a prefix of the table
MAC_LONG == "C4:E9:84:00:00:01:99"

\* a prefix that is in no table
MAC_OTHER == "DE:AD:BE:EF:00:01"

NormAddrs ==
    {"", MAC_ZERO, MAC_JBL, mac_jbl, MAC_APPLE, MAC_TPLINK, MAC_OTHER, UUID_ADDR, MAC_DASHED,
     MAC_ESCAPED, MAC_LONG}

\* --lat, --lng: absent, 0.0 or another value (degrees)
NormCoords == {None, <<0>>, <<37>>}

\* the name of a sighting: the key absent (None), or <<the string>>
NormNames ==
    {None, <<"">>, <<"HomeNet">>, <<"JBL Flip 5">>, <<"Galaxy Watch">>, <<"Galaxy Tab">>,
     <<"iPad">>, <<"Tile">>, <<"Keyboard">>, <<"Echo Dot">>, <<"Fire Tablet">>, <<"Roku">>,
     <<"Nest Cam">>}

\* the type of a Bluetooth sighting: the key absent (None), or <<the string>>
NormTypes == {None, <<"classic">>, <<"ble">>}

\* the channel of a Wi-Fi sighting
NormChannels == {-1, 0, 1, 6, 13, 14, 15, 35, 36, 40, 165, 166, 200}

\* a Bluetooth sighting as the adapters build it
BtSighting(a, name, type) ==
    (IF name # None THEN [name |-> name[1]] ELSE <<>>)
    @@ (IF type # None THEN [type |-> type[1]] ELSE <<>>)
    @@ [mac |-> a, rssi |-> -60]

\* a Wi-Fi sighting as the adapters build it
WifiSighting(a, name, channel) ==
    (IF name # None THEN [ssid |-> name[1]] ELSE <<>>)
    @@ [bssid |-> a, rssi |-> -55, channel |-> channel, auth |-> "WPA2"]

NormFns == {"format_wifi_devices", "format_bt_devices", "bt_format_devices", "wifi_format_devices"}

BtFns == {"format_bt_devices", "bt_format_devices"}

\* lists of addresses, the other fields and the coordinates fixed
AddrEnvs ==
    [fn : NormFns, addrs : SeqsUpTo(NormAddrs, MaxSightings), lat : {None}, lng : {None},
     name : {<<"HomeNet">>}, type : {<<"ble">>}, channel : {6}]

\* the nine combinations of --lat and --lng
CoordEnvs ==
    [fn : NormFns, addrs : SeqsUpTo({MAC_JBL, UUID_ADDR}, MaxSightings), lat : NormCoords,
     lng : NormCoords, name : {<<"HomeNet">>}, type : {<<"ble">>}, channel : {6}]

\* one or two sightings with the name, the type or the channel varied
FieldEnvs ==
    [fn : BtFns, addrs : {<<MAC_JBL>>, <<MAC_JBL, MAC_OTHER>>}, lat : {None}, lng : {None},
     name : NormNames, type : NormTypes, channel : {6}]
    \cup
    [fn : NormFns \ BtFns, addrs : {<<MAC_APPLE>>, <<MAC_APPLE, MAC_OTHER>>}, lat : {None},
     lng : {None}, name : {None, <<"">>, <<"HomeNet">>}, type : {<<"ble">>},
     channel : NormChannels]

NormEnvs == AddrEnvs \cup CoordEnvs \cup FieldEnvs

InitNorm ==
    /\ env \in NormEnvs
    /\ system = "Linux"
    /\ variant = IF env.fn = "bt_format_devices" THEN "bt"
                 ELSE IF env.fn = "wifi_format_devices" THEN "wifi" ELSE "multi"
    /\ once = TRUE
    /\ wifi_only = FALSE
    /\ bt_only = FALSE
    /\ API_KEY = "k3y"
    /\ APP_URL = "https://sigint.example"
    /\ LATITUDE = None
    /\ LONGITUDE = None
    /\ pc = "args"
    /\ scan_count = 0
    /\ total_pushed = 0
    /\ wifi_nets = <<>>
    /\ bt_devs_raw = <<>>
    /\ all_devices = <<>>
    /\ ok = FALSE
    /\ result = NoJson
    /\ http = <<>>
    /\ server_processed = 0
    /\ calls = <<>>
    /\ summary = None
    /\ exc = ""
    /\ ret = <<>>
    /\ worker = "none"

\* if args.lat is not None: LATITUDE = args.lat; if args.lng is not None: LONGITUDE = args.lng
ApplyArgs ==
    /\ pc = "args"
    /\ LATITUDE' = IF env.lat # None THEN env.lat ELSE LATITUDE
    /\ LONGITUDE' = IF env.lng # None THEN env.lng ELSE LONGITUDE
    /\ pc' = "format"
    /\ UNCHANGED <<variant, system, once, wifi_only, bt_only, API_KEY, APP_URL, controller, orch>>

\* the sightings handed to the format function
Sightings ==
    IF env.fn \in BtFns
    THEN [i \in 1..Len(env.addrs) |-> BtSighting(env.addrs[i], env.name, env.type)]
    ELSE [i \in 1..Len(env.addrs) |-> WifiSighting(env.addrs[i], env.name, env.channel)]

\* devices = format_...(sightings), with the globals as they are
CallFormat ==
    /\ pc = "format"
    /\ ret' = IF env.fn = "format_wifi_devices"
                  THEN format_wifi_devices(Sightings, LATITUDE, LONGITUDE)
              ELSE IF env.fn = "format_bt_devices"
                  THEN format_bt_devices(Sightings, LATITUDE, LONGITUDE)
              ELSE IF env.fn = "bt_format_devices"
                  THEN bt_format_devices(Sightings, LATITUDE, LONGITUDE)
              ELSE wifi_format_devices(Sightings, LATITUDE, LONGITUDE)
    /\ pc' = "returned"
    /\ UNCHANGED <<config, controller, env, worker>>

NextNorm ==
    \/ ApplyArgs
    \/ CallFormat

SpecNorm == InitNorm /\ [][NextNorm]_vars

-----------------------------------------------------------------------------
(* The netsh parser on its own: one call of scan_wifi_windows on an output *)
(* of `netsh wlan show networks mode=bssid` with up to MaxBlocks BSSID     *)
(* blocks. The lines of a block after its BSSID line (Signal, Radio type,  *)
(* Channel) come in any order; the blocks stand under one SSID section or  *)
(* each under its own.                                                     *)

MaxBlocks == 2

Line(tag, val) == [tag |-> tag, matched |-> TRUE, val |-> val]

BlockDigits == <<"1", "2", "3", "4", "5", "6", "7", "8", "9">>

\* what netsh prints for the k-th BSSID
NetshAddr(k) == "c4:e9:84:00:00:0" \o BlockDigits[k]

NetshSignal(k) == 100 - 10 * k

NetshChannel(k) == 36 + 4 * k

NetshRadio(k) == IF k % 2 = 1 THEN "802.11ac" ELSE "802.11n"

NetshSsid(k) == "Net" \o BlockDigits[k]

NetshAuth(k) == IF k % 2 = 1 THEN "WPA2-Personal" ELSE "Open"

\* the orders of the three lines of a block
BlockOrders ==
    {o \in [1..3 -> {"Signal", "Radio type", "Channel"}] :
        \A i, j \in 1..3 : i # j => o[i] # o[j]}

BlockLine(k, tag) ==
    IF tag = "Signal" THEN Line("Signal", NetshSignal(k))
    ELSE IF tag = "Radio type" THEN Line("Radio type", NetshRadio(k))
    ELSE Line("Channel", NetshChannel(k))

\* the SSID section that precedes the k-th block, if one does
NetshHeader(k, own) ==
    IF k = 1 \/ own
    THEN << Line("SSID", NetshSsid(k)), Line("Network type", "Infrastructure"),
            Line("Authentication", NetshAuth(k)), Line("Encryption", "CCMP") >>
    ELSE <<>>

RECURSIVE NetshOutput(_, _, _)
NetshOutput(orders, k, own) ==
    IF k > Len(orders) THEN <<>>
    ELSE NetshHeader(k, own)
            \o <<Line("BSSID", NetshAddr(k))>>
            \o [i \in 1..3 |-> BlockLine(k, orders[k][i])]
            \o NetshOutput(orders, k + 1, own)

NetshFns == {"scan_wifi_windows", "wifi_scan_wifi_windows"}

NetshEnvs == [fn : NetshFns, orders : SeqsUpTo(BlockOrders, MaxBlocks), own_ssid : BOOLEAN]

InitNetsh ==
    /\ env \in NetshEnvs
    /\ system = "Windows"
    /\ variant = IF env.fn = "wifi_scan_wifi_windows" THEN "wifi" ELSE "multi"
    /\ once = TRUE
    /\ wifi_only = FALSE
    /\ bt_only = FALSE
    /\ API_KEY = "k3y"
    /\ APP_URL = "https://sigint.example"
    /\ LATITUDE = None
    /\ LONGITUDE = None
    /\ pc = "call"
    /\ scan_count = 0
    /\ total_pushed = 0
    /\ wifi_nets = <<>>
    /\ bt_devs_raw = <<>>
    /\ all_devices = <<>>
    /\ ok = FALSE
    /\ result = NoJson
    /\ http = <<>>
    /\ server_processed = 0
    /\ calls = <<>>
    /\ summary = None
    /\ exc = ""
    /\ ret = <<>>
    /\ worker = "none"

\* networks = scan_wifi_windows()
CallScanWifiWindows ==
    /\ pc = "call"
    /\ LET n == Ran(0, NetshOutput(env.orders, 1, env.own_ssid))
       IN  ret' = IF env.fn = "scan_wifi_windows" THEN scan_wifi_windows(n)
                  ELSE wifi_scan_wifi_windows(n)
    /\ pc' = "returned"
    /\ UNCHANGED <<config, controller, env, worker>>

SpecNetsh == InitNetsh /\ [][CallScanWifiWindows]_vars

-----------------------------------------------------------------------------
(* Properties *)

\* the positions of main that the specification calls Scanning
Scanning == {"iter", "wifi", "bt", "push"}

\* a step in which push_to_server returned: one more request is on record
Pushed == Len(http') = Len(http) + 1

\* what came back to the request made in this step
Answered == http'[Len(http')].resp

\* a step in which no KeyboardInterrupt is raised
Undisturbed == exc' = exc

\* C1: no record of any batch handed to push_to_server carries an empty or an
\* all-zero macAddress, whatever the signal kind and whichever collector runs.
C1_NoEmptyOrZeroAddressPushed ==
    \A i \in 1..Len(http) : \A j \in 1..Len(http[i].devices) :
        http[i].devices[j].macAddress \notin {"", MAC_ZERO}

\* C2: a push whose outcome is anything but HTTP 200 (401, 403, another status,
\* a connection error, a timeout, any other transport exception) returns a
\* failure with an error text and leaves total_pushed as it was; a 401 is
\* reported as an invalid API key.
C2_FailedPushLeavesCounter ==
    [][ (Pushed /\ ~(Answered.kind = "http" /\ Answered.status = 200)) =>
            /\ ok' = FALSE
            /\ "error" \in DOMAIN result'
            /\ total_pushed' = total_pushed
            /\ (Answered.kind = "http" /\ Answered.status = 401) =>
                   Prefix(result'.error, 16) = "Invalid API key." ]_vars

\* a 401 answer to a push inside the loop, after an earlier push had counted
C2_Witness ==
    /\ pc = "sleep"
    /\ scan_count = 2
    /\ total_pushed = 2
    /\ Len(http) = 1
    /\ http[1].devices # <<>>
    /\ http[1].resp.status = 401
    /\ ~ok
    /\ result.error = "Invalid API key."

\* C3: total_pushed is the sum of the `processed` values the server reported in
\* the successful pushes made inside the loop: it is 0 when the loop is entered,
\* the probe adds nothing to it, and what a push adds is the server's number, not
\* the number of records submitted.
C3_TotalIsServerReported ==
    /\ total_pushed = server_processed
    /\ (pc = "iter" /\ scan_count = 0) => total_pushed = 0

\* the server answered 200 with processed = 2 to a batch of one record
C3_Witness ==
    /\ pc \in {"sleep", "terminated"}
    /\ Len(http) = 1
    /\ Len(http[1].devices) = 1
    /\ ok
    /\ Get(result, "processed", 0) = 2
    /\ total_pushed = 2

\* how many times x occurs in seq
Count(seq, x) == Cardinality({i \in 1..Len(seq) : seq[i] = x})

\* none of the native Bluetooth tools of the collector is installed
NativeMissing ==
    /\ env.hcitool.kind = "FileNotFoundError"
    /\ env.bluetoothctl.kind = "FileNotFoundError"
    /\ env.fn = "bt_scan_bluetooth" => env.lescan.kind = "FileNotFoundError"

\* C4: when the primary adapter is unavailable (CoreWLAN cannot be imported; no
\* native Bluetooth tool is installed on Linux) the orchestrator calls the next
\* adapter (airport; bleak) exactly once and returns the sightings of that adapter
\* as they are.
C4_FallbackOnceVerbatim ==
    pc = "returned" =>
        /\ (env.fn = "scan_wifi_macos" /\ env.corewlan.kind = "ImportError") =>
               LET next == scan_wifi_macos_airport(env.airport)
               IN  /\ ret.calls = <<"CoreWLAN", "airport">>
                   /\ next.st = "ok" => (ret.st = "ok" /\ ret.val = next.val)
        /\ (env.fn = "scan_bluetooth" /\ system = "Linux" /\ NativeMissing) =>
               LET next == scan_bt_bleak(env.bleak)
               IN  /\ ret.calls = <<"hcitool scan", "bluetoothctl", "bleak">>
                   /\ next.st = "ok" => (ret.st = "ok" /\ ret.val = next.val)
        /\ (env.fn = "bt_scan_bluetooth" /\ system = "Linux" /\ NativeMissing) =>
               LET next == bt_scan_bluetooth_bleak(env.bleak)
               IN  /\ ret.calls = <<"hcitool scan", "hcitool lescan", "bluetoothctl", "bleak">>
                   /\ next.st = "ok" => (ret.st = "ok" /\ ret.val = next.val)

\* CoreWLAN is not installed and airport lists two networks: both are returned
C4_Witness ==
    /\ pc = "returned"
    /\ env.fn = "scan_wifi_macos"
    /\ env.corewlan.kind = "ImportError"
    /\ env.airport.kind = "ok"
    /\ Len(env.airport.lines) = 2
    /\ Len(ret.val) = 2
    /\ ret.val[1].bssid # ret.val[2].bssid

\* what a native tool listed: nothing when it is missing or timed out
Listed(o) == IF o.kind = "ok" THEN o.lines ELSE <<>>

\* the lines of hcitool lescan that carry a usable name
Named(lines) == SelectSeq(lines, LAMBDA m : m.name # "" /\ m.name # "(unknown)")

Lists(lines, mac) == \E i \in 1..Len(lines) : upper(lines[i].mac) = mac

\* the first line of a tool's output that carries the address
First(lines, mac) ==
    lines[CHOOSE i \in 1..Len(lines) :
              /\ upper(lines[i].mac) = mac
              /\ \A j \in 1..(i - 1) : upper(lines[j].mac) # mac]

AddressesOf(lines) == {upper(lines[i].mac) : i \in 1..Len(lines)}

\* the call returned the merged list of the native Bluetooth tools
NativeMerged ==
    /\ pc = "returned"
    /\ env.fn \in {"scan_bluetooth", "bt_scan_bluetooth"}
    /\ system = "Linux"
    /\ ret.st = "ok"
    /\ Count(ret.calls, "bleak") = 0

C7_FailedPushContinues ==
    [][ /\ (pc = "push" /\ ~once /\ Undisturbed) =>
               /\ pc' = "sleep"
               /\ scan_count' = scan_count
        /\ (pc = "sleep" /\ Undisturbed) => pc' = "iter"
        /\ (pc = "iter" /\ Undisturbed) =>
               /\ scan_count' = scan_count + 1
               /\ pc' \in Scanning \ {"iter"} ]_vars

\* a push of the first iteration was answered 403, the controller slept and is
\* back at the top of the loop, about to scan again
C7_Witness ==
    /\ pc = "iter"
    /\ scan_count = 1
    /\ ~once
    /\ Len(http) = 1
    /\ http[1].devices # <<>>
    /\ http[1].resp.status = 403
    /\ ~ok
    /\ ENABLED BeginScan

\* C8: no failure in a backend scan or in normalization (a tool that is missing,
\* a tool that times out, a non-zero exit status, any other exception) leaves
\* main: the only exception that ever ends the run is the KeyboardInterrupt.
C8_BackendFailureContained == pc = "crashed" => exc = "KeyboardInterrupt"

\* C9: a user interrupt, in whichever state it arrives (Probing, Scanning,
\* Sleeping), ends the run in Terminated with the final line that prints the
\* scan count and total_pushed.
C9_InterruptPrintsSummary ==
    exc = "KeyboardInterrupt" =>
        /\ pc = "terminated"
        /\ summary = <<scan_count, total_pushed>>

\* C10: with --once the controller leaves Scanning for Terminated after exactly
\* one iteration (scan_count is 1 and it never sleeps); otherwise it leaves
\* Scanning only for Sleeping and Sleeping only for Scanning; a user interrupt is
\* the only other way out of Scanning or Sleeping.
C10_ModeTransitions ==
    [][ /\ (pc \in Scanning /\ pc' \notin Scanning) =>
               \/ exc' = "KeyboardInterrupt" /\ pc' = "terminated"
               \/ once /\ pc = "push" /\ pc' = "terminated" /\ scan_count' = 1
               \/ ~once /\ pc = "push" /\ pc' = "sleep"
        /\ (pc = "sleep" /\ pc' # "sleep") =>
               \/ exc' = "KeyboardInterrupt" /\ pc' = "terminated"
               \/ ~once /\ pc' = "iter"
        /\ once => pc' # "sleep" ]_vars

\* C11: a call of push_to_server is one request, and main calls it at most once in
\* an iteration. The requests of the current iteration are never more than one,
\* none is on record while the iteration is still scanning or about to push, and
\* after the push the loop is at the break or the sleep: a failed push is followed
\* by no second request until the next iteration has begun.
C11_OnePushPerIteration ==
    /\ Len(http) <= 1
    /\ pc \in {"wifi", "bt", "push"} => http = <<>>

\* the first iteration's push has failed and the loop sleeps with one request made
C11_Witness ==
    /\ pc = "sleep"
    /\ scan_count = 1
    /\ ~ok
    /\ Len(http) = 1
    /\ http[1].devices # <<>>
    /\ http[1].resp.kind = "Timeout"

\* C12: inside the loop a request is made exactly when the batch of records the
\* iteration produced (all_devices once the push step is over) is not empty, so
\* every request made after the first iteration began carries at least one
\* record and an empty list is sent by the connection test only.
C12_PushIffBatchNonEmpty ==
    [][(pc = "push" /\ Undisturbed) =>
          /\ Pushed <=> all_devices' # <<>>
          /\ Pushed => http'[Len(http')].devices # <<>>]_vars

\* C13: once main has returned, by the --once break or through the handler of the
\* interrupt, nothing more happens: no backend is called, no request is made, no
\* iteration is counted, the loop is not entered again and the summary, printed
\* or not on the way out, stays as it is.
C13_TerminatedAbsorbing ==
    [][pc = "terminated" =>
          /\ pc' = "terminated"
          /\ calls' = calls
          /\ http' = http
          /\ scan_count' = scan_count
          /\ total_pushed' = total_pushed
          /\ summary' = summary]_vars

\* main has returned: after one iteration with --once, or by Ctrl+C in the sleep
C13_Witness ==
    /\ pc = "terminated"
    /\ \/ once /\ exc = "" /\ scan_count = 1 /\ summary = None
       \/ ~once /\ exc = "KeyboardInterrupt" /\ summary = <<scan_count, total_pushed>>

\* the credential is empty or the placeholder, or the URL is the placeholder
ConfigMissing ==
    \/ API_KEY = ""
    \/ API_KEY = "YOUR_API_KEY_HERE"
    \/ APP_URL = "https://your-app.replit.app"

\* C14: with the credential or the URL missing the process exits with status 1
\* before the connection test and before any iteration (no request is ever made,
\* no scan counted), and a process that exited with a failure status before the
\* loop had its credential or its URL missing.
C14_OnlyConfigurationExits ==
    /\ ConfigMissing => pc \in {"start", "exit_config"} /\ http = <<>> /\ scan_count = 0
    /\ pc \in {"exit_config", "exit_platform"} => ConfigMissing

\* a tool that is not installed, a library that cannot be imported
Unusable(o) == o.kind \in {"FileNotFoundError", "ImportError", "absent"}

\* no tool of the platform is usable
AllUnavailable(e) == \A f \in DOMAIN e : Unusable(e[f])

\* C15: when none of the adapters of a signal kind is usable on the host, the scan
\* of that kind raises nothing and yields the empty list, the iteration goes on
\* with the next enabled kind or with the push step, and an iteration that found
\* nothing at all makes no request and goes to the break or the sleep.
C15_AllUnavailableIsEmpty ==
    [][/\ \A w \in CtlWifiEnv(system) :
             AllUnavailable(w) =>
                /\ MultiScanWifiWith(w) =>
                      /\ wifi_nets' = <<>>
                      /\ all_devices' = all_devices
                      /\ exc' = exc
                      /\ pc' = IF scan_bt_enabled THEN "bt" ELSE "push"
                /\ WifiScanWith(w) => wifi_nets' = <<>> /\ exc' = exc /\ pc' = "push"
       /\ \A e \in CtlBtEnv(system) :
             AllUnavailable(e) =>
                /\ MultiScanBtWith(e) =>
                      /\ bt_devs_raw' = <<>>
                      /\ all_devices' = all_devices
                      /\ exc' = exc
                      /\ pc' = "push"
                /\ BtScanWith(e) => bt_devs_raw' = <<>> /\ exc' = exc /\ pc' = "push"
       /\ (pc = "push" /\ wifi_nets = <<>> /\ bt_devs_raw = <<>> /\ Undisturbed) =>
             /\ http' = http
             /\ pc' = IF once THEN "terminated" ELSE "sleep"]_vars

\* on Linux the multi collector has called the two native tools and bleak, got
\* nothing from the Wi-Fi scan nor from them, and is at the push step
C15_Witness ==
    /\ variant = "multi"
    /\ system = "Linux"
    /\ pc = "push"
    /\ calls = <<"nmcli", "hcitool scan", "bluetoothctl", "bleak">>
    /\ wifi_nets = <<>>
    /\ bt_devs_raw = <<>>
    /\ all_devices = <<>>

\* C16: inside the loop an interrupt takes effect only at the top of an iteration
\* or in the sleep: while a backend scan or the push is about to run or running,
\* no step ends the iteration with a KeyboardInterrupt.
C16_InterruptAtBoundaryOnly ==
    [][(InTry /\ exc # "KeyboardInterrupt" /\ exc' = "KeyboardInterrupt") =>
          pc \in {"iter", "sleep"}]_vars

\* C17: when scan_bt_bleak or scan_bluetooth_bleak returns, the thread it
\* started, if any, has ended and has been joined, whether the call returns the
\* thread's list, or [] after the 15 s timeout or after an error of the scan; and
\* the step of the thread leaves the configuration and the counters of the run
\* as they are.
C17_WorkerJoinedBeforeReturn ==
    [][/\ pc' = "returned" => worker' \in {"none", "joined"}
       /\ (worker = "running" /\ worker' # worker) =>
             UNCHANGED <<config, scan_count, total_pushed>>]_vars

\* the call waited 15 s in vain, returned [] although the scan found a device in
\* the end, and the thread was joined before the return
C17_Witness ==
    /\ pc = "returned"
    /\ worker = "joined"
    /\ env.bleak.kind = "ok"
    /\ env.bleak.found # <<>>
    /\ ret.val = <<>>

\* C18: every record a format function returns has both latitude and longitude
\* or neither, whatever --lat and --lng were: both are there exactly when both
\* were given (0.0 counts as given), with the values given.
C18_CoordinatesBothOrNeither ==
    pc = "returned" =>
       \A j \in 1..Len(ret) :
          /\ "latitude" \in DOMAIN ret[j] <=> "longitude" \in DOMAIN ret[j]
          /\ "latitude" \in DOMAIN ret[j] <=> (env.lat # None /\ env.lng # None)
          /\ "latitude" \in DOMAIN ret[j] =>
                ret[j].latitude = env.lat[1] /\ ret[j].longitude = env.lng[1]

\* only --lat was given, as 0.0, and a record was made: it has no coordinates
C18_Witness ==
    /\ pc = "returned"
    /\ env.lat = <<0>>
    /\ env.lng = None
    /\ LATITUDE = <<0>>
    /\ Len(ret) = 2
    /\ "latitude" \notin DOMAIN ret[1]

\* the characters of a colon-delimited hardware address
HexOrColon ==
    {"0", "1", "2", "3", "4", "5", "6", "7", "8", "9", "A", "B", "C", "D", "E", "F",
     "a", "b", "c", "d", "e", "f", ":"}

\* longer than 17 characters, or with a delimiter other than ':'
Opaque(a) == Len(a) > 17 \/ (\E i \in 1..Len(a) : SubSeq(a, i, i) \notin HexOrColon)

\* C19: for every sighting whose address is longer than 17 characters or has a
\* delimiter other than ':', a record with that address is returned, and every
\* record with that address has the manufacturer "Unknown (macOS UUID)", never
\* a name of the OUI table.
C19_OpaqueAddressGetsSentinel ==
    pc = "returned" =>
       \A i \in 1..Len(env.addrs) :
          Opaque(env.addrs[i]) =>
             /\ \E j \in 1..Len(ret) : ret[j].macAddress = env.addrs[i]
             /\ \A j \in 1..Len(ret) :
                   ret[j].macAddress = env.addrs[i] =>
                      ret[j].manufacturer = "Unknown (macOS UUID)"

\* the OUI table the format function's lookup_manufacturer reads
TableOf(fn) ==
    IF fn = "bt_format_devices" THEN BT_OUI_DB
    ELSE IF fn = "wifi_format_devices" THEN WIFI_OUI_DB
    ELSE OUI_DB

\* the first 8 characters, uppercased
Oui(a) == upper(Prefix(a, 8))

\* C20: among the records returned, two addresses that are not opaque and have
\* the same first 8 characters after uppercasing have the same manufacturer,
\* and an address that is not opaque and whose uppercased first 8 characters
\* are not in the OUI table has the manufacturer "Unknown".
C20_ManufacturerByPrefix ==
    pc = "returned" =>
       /\ \A j, k \in 1..Len(ret) :
             (/\ ~Opaque(ret[j].macAddress)
              /\ ~Opaque(ret[k].macAddress)
              /\ Oui(ret[j].macAddress) = Oui(ret[k].macAddress)) =>
                ret[j].manufacturer = ret[k].manufacturer
       /\ \A j \in 1..Len(ret) :
             (~Opaque(ret[j].macAddress) /\ Oui(ret[j].macAddress) \notin DOMAIN TableOf(env.fn)) =>
                ret[j].manufacturer = "Unknown"

\* the same prefix in upper and in lower case: both records name the manufacturer
C20_Witness ==
    /\ pc = "returned"
    /\ Len(ret) = 2
    /\ ret[1].macAddress = MAC_JBL
    /\ ret[2].macAddress = mac_jbl
    /\ ret[1].manufacturer = "JBL"
    /\ ret[2].manufacturer = "JBL"

\* the frequency of a channel in MHz, None when the channel is in neither band
BandMHz(c) ==
    IF c \in 1..13 THEN <<2407 + 5 * c>>
    ELSE IF c = 14 THEN <<2484>>
    ELSE IF c \in 36..165 THEN <<5000 + 5 * c>>
    ELSE None

\* C21: the frequency of every Wi-Fi record is the one of its channel: 2407 + 5c
\* MHz for 1..13, 2484 MHz for 14, 5000 + 5c MHz for 36..165 and None for any
\* other channel; 6 gives 2437 MHz, 40 gives 5200 MHz, 200 gives None. (The
\* code returns the value in Hz, this number times 10^6.)
C21_ChannelToFreq ==
    (pc = "returned" /\ env.fn \notin BtFns) =>
       /\ \A j \in 1..Len(ret) :
             /\ ret[j].channel = env.channel
             /\ ret[j].frequency = BandMHz(env.channel)
       /\ channel_to_freq(6) = <<2437>>
       /\ channel_to_freq(40) = <<5200>>
       /\ channel_to_freq(200) = None

\* a network on channel 14 was normalized
C21_Witness ==
    /\ pc = "returned"
    /\ env.fn = "wifi_format_devices"
    /\ env.channel = 14
    /\ Len(ret) = 2
    /\ ret[1].frequency = <<2484>>

\* the nine categories in their order, each with its keywords
Categories ==
    << [category |-> "Audio / Headphones", keywords |-> KW_AUDIO],
       [category |-> "Wearable", keywords |-> KW_WEARABLE_BT],
       [category |-> "Smartphone", keywords |-> KW_PHONE],
       [category |-> "Tablet", keywords |-> KW_TABLET_BT],
       [category |-> "Tracker", keywords |-> KW_TRACKER],
       [category |-> "Peripheral", keywords |-> KW_PERIPHERAL],
       [category |-> "Smart Speaker", keywords |-> KW_SPEAKER_BT],
       [category |-> "Smart TV / Streaming", keywords |-> KW_TV_BT],
       [category |-> "Smart Home", keywords |-> KW_HOME_BT] >>

\* the categories with a keyword in the lowercased name
Matching(name) == {i \in 1..Len(Categories) : AnyIn(lower(name), Categories[i].keywords)}

\* the first of them, "Bluetooth Device" when there is none
FirstCategory(name) ==
    IF Matching(name) = {} THEN "Bluetooth Device"
    ELSE Categories[CHOOSE i \in Matching(name) : \A k \in Matching(name) : i <= k].category

\* C22: the deviceType of every Bluetooth record, from the multi collector's
\* classifier as from the Bluetooth collector's, is the first of the nine
\* categories with a keyword in the lowercased name, "Bluetooth Device" when no
\* category has one.
C22_FirstOfNineCategories ==
    (pc = "returned" /\ env.fn \in BtFns) =>
       \A j \in 1..Len(ret) : ret[j].deviceType = FirstCategory(ret[j].name)

\* the record of the example, with the given manufacturer (frequency in MHz)
HomeNetRecord(manufacturer) ==
    [macAddress |-> "AC:BC:32:11:22:33", name |-> "HomeNet", signalType |-> "wifi",
     deviceType |-> "Wi-Fi Network", manufacturer |-> manufacturer,
     signalStrength |-> -55, frequency |-> <<2437>>, channel |-> 6,
     protocol |-> "802.11", encryption |-> "WPA2"]

\* C23: the Wi-Fi sighting with bssid "AC:BC:32:11:22:33", ssid "HomeNet",
\* rssi -55, channel 6 and auth "WPA2", normalized with no coordinates, yields
\* exactly the record with name "HomeNet", signalType "wifi", deviceType
\* "Wi-Fi Network", manufacturer "Apple", signalStrength -55, frequency
\* 2437 MHz, channel 6, protocol "802.11" and encryption "WPA2".
C23_HomeNetRecord ==
    (/\ pc = "returned" /\ env.fn \notin BtFns
     /\ env.addrs = <<"AC:BC:32:11:22:33">> /\ env.name = <<"HomeNet">>
     /\ env.channel = 6 /\ LATITUDE = None /\ LONGITUDE = None)
       => ret = <<HomeNetRecord("Apple")>>

\* C24: a Bluetooth record's frequency and protocol follow the sighting's type
\* alone: 2402 MHz and "BLE 5.0" for "ble", 2440 MHz and "Bluetooth Classic"
\* for "classic" and for a sighting without a type; the sighting
\* "7C:D9:F4:AA:BB:CC", "JBL Flip 5", classic yields deviceType
\* "Audio / Headphones", manufacturer "JBL", 2440 MHz, "Bluetooth Classic".
C24_TransportDecides ==
    (pc = "returned" /\ env.fn \in BtFns) =>
       /\ \A j \in 1..Len(ret) :
             IF env.type = <<"ble">>
             THEN ret[j].frequency = <<2402>> /\ ret[j].protocol = "BLE 5.0"
             ELSE ret[j].frequency = <<2440>> /\ ret[j].protocol = "Bluetooth Classic"
       /\ (/\ env.addrs # <<>> /\ env.addrs[1] = "7C:D9:F4:AA:BB:CC" /\ env.name = <<"JBL Flip 5">>
           /\ env.type = <<"classic">>)
             => /\ ret[1].deviceType = "Audio / Headphones"
                /\ ret[1].manufacturer = "JBL"
                /\ ret[1].signalStrength = -60

\* a JBL Flip 5 sighting without a type has been normalized by the multi
\* collector, next to a second sighting
C24_Witness ==
    /\ pc = "returned" /\ env.fn = "format_bt_devices"
    /\ env.name = <<"JBL Flip 5">> /\ env.type = None
    /\ Len(ret) = 2 /\ ret[1].protocol = "Bluetooth Classic"
    /\ ret[1].manufacturer = "JBL"

\* C25: every record of every batch handed to push_to_server has a non-empty
\* name, for Wi-Fi records and for Bluetooth records of every adapter.
C25_NameNeverEmpty ==
    \A i \in 1..Len(http) : \A j \in 1..Len(http[i].devices) :
        http[i].devices[j].name # ""

\* an address the normalizers are to keep
Usable(a) == a \notin {"", MAC_ZERO}

\* C26: the normalizer returns one record for each sighting whose address is
\* neither empty nor all-zero, in input order, and none for the others: the
\* addresses of the records are those of the kept sightings in order, and the
\* output is as long as the input less the sightings with such an address.
C26_OneRecordPerUsableSighting ==
    pc = "returned" =>
       /\ [j \in 1..Len(ret) |-> ret[j].macAddress] = SelectSeq(env.addrs, Usable)
       /\ Len(ret) = Len(env.addrs) - Count(env.addrs, "") - Count(env.addrs, MAC_ZERO)

\* the backends in priority order: the Wi-Fi tools, then the Bluetooth tools
PriorityOrder ==
    <<"CoreWLAN", "airport", "netsh", "nmcli", "iwlist",
      "hcitool scan", "hcitool lescan", "bluetoothctl", "bleak">>

Rank(c) == CHOOSE i \in 1..Len(PriorityOrder) : PriorityOrder[i] = c

\* each backend at most once, in priority order
InOrder(cs) == \A i, j \in 1..Len(cs) : i < j => Rank(cs[i]) < Rank(cs[j])

NativeAddresses ==
    AddressesOf(Listed(env.hcitool)) \cup AddressesOf(Listed(env.bluetoothctl))
    \cup (IF env.fn = "bt_scan_bluetooth" THEN AddressesOf(Named(Listed(env.lescan))) ELSE {})

\* C28: on Linux, when the orchestrator returns, the generic BLE library has
\* been called if and only if the native
\* Bluetooth tools together listed no device, and when they listed one the
\* returned addresses are theirs alone; on macOS a CoreWLAN scan that succeeds
\* with no network falls through to airport in the same way.
C28_EmptyFallsThrough ==
    pc = "returned" =>
        /\ (/\ env.fn \in {"scan_bluetooth", "bt_scan_bluetooth"} /\ system = "Linux"
            /\ ret.st = "ok") =>
               /\ Count(ret.calls, "bleak") = (IF NativeAddresses = {} THEN 1 ELSE 0)
               /\ NativeAddresses # {} =>
                      {ret.val[i].mac : i \in 1..Len(ret.val)} = NativeAddresses
        /\ (/\ env.fn = "scan_wifi_macos" /\ env.corewlan.kind = "ok"
            /\ scan_wifi_macos_corewlan(env.corewlan).val = <<>>) =>
               ret.calls = <<"CoreWLAN", "airport">>

\* the records normalized from the sightings the backends returned in this
\* iteration
NormalizedNow ==
    IF variant = "bt" THEN bt_format_devices(bt_devs_raw, LATITUDE, LONGITUDE)
    ELSE IF variant = "wifi" THEN wifi_format_devices(wifi_nets, LATITUDE, LONGITUDE)
    ELSE format_wifi_devices(wifi_nets, LATITUDE, LONGITUDE)
            \o format_bt_devices(bt_devs_raw, LATITUDE, LONGITUDE)

\* C29: the batch sent by the push of an iteration consists of the records
\* normalized from the sightings of that iteration and of nothing else, so no
\* record of an earlier batch is sent again; a failed push leaves scan_count,
\* total_pushed and the configuration as they were and goes on as an
\* iteration without a push does.
C29_NothingCarriedOver ==
    [][(Pushed /\ pc = "push") =>
          /\ http'[Len(http')].devices = NormalizedNow
          /\ ~ok' => /\ scan_count' = scan_count
                     /\ total_pushed' = total_pushed
                     /\ config' = config
                     /\ pc' = IF once THEN "terminated" ELSE "sleep"]_vars

\* the push of the second iteration has failed after an earlier push was
\* counted: the batch is not empty and the counter kept its value
C29_Witness ==
    /\ scan_count = 2 /\ pc = "sleep"
    /\ Len(http) = 1 /\ http[1].devices # <<>>
    /\ ~ok /\ total_pushed > 0

\* the SSID section the k-th block stands under
SectionOf(k) == IF env.own_ssid THEN k ELSE 1

\* the record carries the value under the key
Carries(network, key, val) == key \in DOMAIN network /\ network[key] = val

\* C30: the netsh parser returns one record per BSSID block, and the k-th
\* record carries the address of the k-th block, the SSID and authentication of
\* the section the block stands under, and the signal, channel and radio type
\* of that block, whatever the order of the block's lines.
C30_BlockFieldsStayTogether ==
    pc = "returned" =>
       /\ Len(ret.val) = Len(env.orders)
       /\ \A k \in 1..Len(ret.val) :
             /\ Carries(ret.val[k], "bssid", upper(NetshAddr(k)))
             /\ Carries(ret.val[k], "ssid", NetshSsid(SectionOf(k)))
             /\ Carries(ret.val[k], "auth", NetshAuth(SectionOf(k)))
             /\ Carries(ret.val[k], "rssi", PctToRssi(NetshSignal(k)))
             /\ Carries(ret.val[k], "channel", NetshChannel(k))
             /\ Carries(ret.val[k], "radio", NetshRadio(k))

====
